---- MODULE Spec2Model ----
(***************************************************************************)
(* Model of the Pump.fun phishy-token checker: the classifier              *)
(* analyze_phishy_behavior_pumpfun (src/check_phishy_token.py) and the     *)
(* Flask handlers of src/app.py.                                           *)
(*                                                                         *)
(* Python values are tagged records [k, s, n]: k is the Python type        *)
(* ("absent" for a missing dict key, "none", "str", "num", "list" for a    *)
(* non-empty list, "huge" for an int beyond the float range), s the        *)
(* characters of a str, n the value of a number. Decimal quantities are    *)
(* fixed point, in tenths (n = 15 is the Python number 1.5).               *)
(***************************************************************************)
EXTENDS Integers, Sequences, FiniteSets, TLC

(***************************************************************************)
(* Python strings: sequences of one-character strings, ordered by code     *)
(* point.                                                                  *)
(***************************************************************************)
Digits == <<"0", "1", "2", "3", "4", "5", "6", "7", "8", "9">>

IsDigit(c) == \E d \in 1..Len(Digits) : Digits[d] = c

DigitVal(c) == (CHOOSE d \in 1..Len(Digits) : Digits[d] = c) - 1

\* ord(c) for the characters that occur in the model's strings
Ord(c) ==
    CASE c = " " -> 32
      [] c = "+" -> 43
      [] c = "-" -> 45
      [] c = "." -> 46
      [] IsDigit(c) -> 48 + DigitVal(c)
      [] c = ":" -> 58
      [] c = "T" -> 84
      [] c = "Z" -> 90
      [] c = "a" -> 97
      [] c = "b" -> 98
      [] c = "c" -> 99
      [] c = "n" -> 110
      [] c = "o" -> 111
      [] c = "s" -> 115
      [] c = "x" -> 120

\* s < t on two str values: the first differing character decides, a proper
\* prefix sorts first
StrLess(s, t) ==
    LET m == IF Len(s) < Len(t) THEN Len(s) ELSE Len(t)
        diff == {j \in 1..m : s[j] # t[j]}
    IN  IF diff = {} THEN Len(s) < Len(t)
        ELSE LET j == CHOOSE x \in diff : \A y \in diff : x <= y
             IN  Ord(s[j]) < Ord(t[j])

RECURSIVE ReplaceZ(_)
\* s.replace('Z', '+00:00'): every occurrence is replaced
ReplaceZ(s) ==
    IF s = <<>> THEN <<>>
    ELSE (IF Head(s) = "Z" THEN <<"+", "0", "0", ":", "0", "0">> ELSE <<Head(s)>>)
         \o ReplaceZ(Tail(s))

Slice(s, a, b) == [j \in 1..(b - a + 1) |-> s[a + j - 1]]

AllDigits(s) == \A j \in 1..Len(s) : IsDigit(s[j])

RECURSIVE Num(_)
\* the decimal number written by a sequence of digits
Num(s) == IF s = <<>> THEN 0 ELSE 10 * Num(SubSeq(s, 1, Len(s) - 1)) + DigitVal(s[Len(s)])

(***************************************************************************)
(* datetime.fromisoformat, on the extended format                          *)
(*   YYYY-MM-DD [ (T | space) HH [:MM [:SS]] [ (+|-) HH:MM ] ]             *)
(* with whole seconds. A parsed value is [ok, aware, day, sec]: day is     *)
(* date.toordinal() and sec the second of that day, both taken in UTC when *)
(* the string carries an offset (aware) and on the wall clock when it does *)
(* not (naive).                                                            *)
(***************************************************************************)
IsLeap(y) == (y % 4 = 0) /\ ((y % 100 # 0) \/ (y % 400 = 0))

DaysInMonth(y, m) ==
    IF m = 2 THEN (IF IsLeap(y) THEN 29 ELSE 28)
    ELSE IF m \in {4, 6, 9, 11} THEN 30 ELSE 31

RECURSIVE DaysBeforeMonth(_, _)
DaysBeforeMonth(y, m) ==
    IF m = 1 THEN 0 ELSE DaysBeforeMonth(y, m - 1) + DaysInMonth(y, m - 1)

Ordinal(y, m, d) ==
    (y - 1) * 365 + ((y - 1) \div 4) - ((y - 1) \div 100) + ((y - 1) \div 400)
    + DaysBeforeMonth(y, m) + d

NotADate == [ok |-> FALSE, aware |-> FALSE, day |-> 0, sec |-> 0]

\* "YYYY-MM-DD" as an ordinal, 0 when it is no date
ParseDate(s) ==
    IF /\ Len(s) = 10
       /\ s[5] = "-" /\ s[8] = "-"
       /\ AllDigits(Slice(s, 1, 4)) /\ AllDigits(Slice(s, 6, 7)) /\ AllDigits(Slice(s, 9, 10))
    THEN LET y == Num(Slice(s, 1, 4))
             m == Num(Slice(s, 6, 7))
             d == Num(Slice(s, 9, 10))
         IN  IF y >= 1 /\ m \in 1..12 /\ d >= 1 /\ d <= DaysInMonth(y, m)
             THEN Ordinal(y, m, d) ELSE 0
    ELSE 0

\* "HH", "HH:MM" or "HH:MM:SS" as a second of the day, -1 when it is no time
ParseClock(s) ==
    LET hh == IF Len(s) >= 2 THEN Slice(s, 1, 2) ELSE <<>>
        mm == IF Len(s) >= 5 THEN Slice(s, 4, 5) ELSE <<"0", "0">>
        ss == IF Len(s) = 8 THEN Slice(s, 7, 8) ELSE <<"0", "0">>
    IN  IF /\ Len(s) \in {2, 5, 8}
           /\ (Len(s) >= 5 => s[3] = ":")
           /\ (Len(s) = 8 => s[6] = ":")
           /\ AllDigits(hh) /\ AllDigits(mm) /\ AllDigits(ss)
           /\ Num(hh) <= 23 /\ Num(mm) <= 59 /\ Num(ss) <= 59
        THEN Num(hh) * 3600 + Num(mm) * 60 + Num(ss)
        ELSE -1

\* "+HH:MM" / "-HH:MM" as seconds east of UTC; ok is FALSE when it is no offset
ParseOffset(s) ==
    IF /\ Len(s) = 6
       /\ s[1] \in {"+", "-"} /\ s[4] = ":"
       /\ AllDigits(Slice(s, 2, 3)) /\ AllDigits(Slice(s, 5, 6))
       /\ Num(Slice(s, 2, 3)) <= 23 /\ Num(Slice(s, 5, 6)) <= 59
    THEN [ok |-> TRUE,
          east |-> (IF s[1] = "-" THEN -1 ELSE 1)
                   * (Num(Slice(s, 2, 3)) * 3600 + Num(Slice(s, 5, 6)) * 60)]
    ELSE [ok |-> FALSE, east |-> 0]

fromisoformat(s) ==
    LET date == IF Len(s) >= 10 THEN ParseDate(Slice(s, 1, 10)) ELSE 0
        rest == IF Len(s) >= 12 THEN Slice(s, 12, Len(s)) ELSE <<>>
        signs == {j \in 1..Len(rest) : rest[j] \in {"+", "-"}}
        cut == IF signs = {} THEN Len(rest) + 1
               ELSE CHOOSE x \in signs : \A y \in signs : x <= y
        clock == ParseClock(SubSeq(rest, 1, cut - 1))
        off == ParseOffset(SubSeq(rest, cut, Len(rest)))
        utc == clock - off.east
    IN  IF date = 0 THEN NotADate
        ELSE IF Len(s) = 10 THEN [ok |-> TRUE, aware |-> FALSE, day |-> date, sec |-> 0]
        ELSE IF Len(s) = 11 \/ s[11] \notin {"T", " "} \/ clock < 0 THEN NotADate
        ELSE IF signs = {} THEN [ok |-> TRUE, aware |-> FALSE, day |-> date, sec |-> clock]
        ELSE IF ~off.ok THEN NotADate
        ELSE [ok |-> TRUE, aware |-> TRUE,
              day |-> date + (utc \div 86400), sec |-> utc % 86400]

\* a < b on two datetimes of the same awareness
DatetimeLess(a, b) == a.day < b.day \/ (a.day = b.day /\ a.sec < b.sec)

(***************************************************************************)
(* float(x) on a str, on the grammar [+|-] digits [. digit]; the value is  *)
(* in tenths.                                                              *)
(***************************************************************************)
ParseFloat(s) ==
    LET signed == s # <<>> /\ s[1] \in {"+", "-"}
        body == IF signed THEN Tail(s) ELSE s
        dots == {j \in 1..Len(body) : body[j] = "."}
        whole == IF dots = {} THEN body ELSE SubSeq(body, 1, Len(body) - 2)
        frac == IF dots = {} THEN <<"0">> ELSE <<body[Len(body)]>>
        good == /\ whole # <<>> /\ AllDigits(whole) /\ AllDigits(frac)
                /\ (dots # {} => (Len(body) >= 3 /\ body[Len(body) - 1] = "."))
    IN  IF good
        THEN [ok |-> TRUE,
              val |-> (IF signed /\ s[1] = "-" THEN -1 ELSE 1) * (10 * Num(whole) + Num(frac))]
        ELSE [ok |-> FALSE, val |-> 0]

(***************************************************************************)
(* Python values                                                           *)
(***************************************************************************)
PyAbsent == [k |-> "absent", s |-> <<>>, n |-> 0]
PyNone == [k |-> "none", s |-> <<>>, n |-> 0]
PyStr(s) == [k |-> "str", s |-> s, n |-> 0]
PyNum(n) == [k |-> "num", s |-> <<>>, n |-> n]
PyList == [k |-> "list", s |-> <<>>, n |-> 0]
PyHuge == [k |-> "huge", s |-> <<>>, n |-> 0]

\* d.get(key, default) on the value v stored under key (PyAbsent: no such key)
Get(v, default) == IF v.k = "absent" THEN default ELSE v

\* bool(v)
Truthy(v) ==
    CASE v.k = "none" -> FALSE
      [] v.k = "str" -> v.s # <<>>
      [] v.k = "num" -> v.n # 0
      [] OTHER -> TRUE

\* float(v): the exception it raises ("" for none) and its value
FloatOf(v) ==
    CASE v.k = "num" -> [err |-> "", val |-> v.n]
      [] v.k = "str" -> (IF ParseFloat(v.s).ok
                         THEN [err |-> "", val |-> ParseFloat(v.s).val]
                         ELSE [err |-> "ValueError", val |-> 0])
      [] v.k = "huge" -> [err |-> "OverflowError", val |-> 0]
      [] OTHER -> [err |-> "TypeError", val |-> 0]

\* float(v) if v else 0.0
FloatOrZero(v) == IF Truthy(v) THEN FloatOf(v) ELSE [err |-> "", val |-> 0]

Caught(err) == err \in {"ValueError", "TypeError"}

AllZero == [err |-> "", transferred_float |-> 0, bought_float |-> 0,
            transferred_without_buy |-> 0]

\* the try/except that converts the two amounts
ConvertAmounts(total_transferred, total_bought) ==
    LET t == FloatOrZero(total_transferred)
        b == FloatOrZero(total_bought)
    IN  IF t.err # "" THEN (IF Caught(t.err) THEN AllZero ELSE [AllZero EXCEPT !.err = t.err])
        ELSE IF b.err # "" THEN (IF Caught(b.err) THEN AllZero ELSE [AllZero EXCEPT !.err = b.err])
        ELSE [err |-> "", transferred_float |-> t.val, bought_float |-> b.val,
              transferred_without_buy |-> t.val - b.val]

\* the try block that parses and compares the two timestamps: "before",
\* "notbefore", or the exception raised
CompareParsed(first_transfer_time, first_buy_time) ==
    LET t == fromisoformat(ReplaceZ(first_transfer_time.s))
        b == fromisoformat(ReplaceZ(first_buy_time.s))
    IN  IF first_transfer_time.k = "str" /\ ~t.ok THEN "ValueError"
        ELSE IF first_buy_time.k = "str" /\ ~b.ok THEN "ValueError"
        ELSE IF first_transfer_time.k = "str" /\ first_buy_time.k = "str"
        THEN (IF t.aware # b.aware THEN "TypeError"
              ELSE IF DatetimeLess(t, b) THEN "before" ELSE "notbefore")
        ELSE IF first_transfer_time.k = "num" /\ first_buy_time.k = "num"
        THEN (IF first_transfer_time.n < first_buy_time.n THEN "before" ELSE "notbefore")
        ELSE "TypeError"

\* the except block: first_transfer_time < first_buy_time on the raw values
CompareRaw(first_transfer_time, first_buy_time) ==
    IF ~(Truthy(first_transfer_time) /\ Truthy(first_buy_time)) THEN "notbefore"
    ELSE IF first_transfer_time.k = "str" /\ first_buy_time.k = "str"
    THEN (IF StrLess(first_transfer_time.s, first_buy_time.s) THEN "before" ELSE "notbefore")
    ELSE IF first_transfer_time.k = "num" /\ first_buy_time.k = "num"
    THEN (IF first_transfer_time.n < first_buy_time.n THEN "before" ELSE "notbefore")
    ELSE "TypeError"

NeverBought == "Never bought the token"
NoTimestamp == "Buy record exists but no timestamp"
BeforeBuy == "Transfer before buy"
StringComparison == "Transfer before buy (string comparison)"

PlainReason(text) == [text |-> text, transfer |-> PyNone, buy |-> PyNone]

\* f"Transfer before buy (transfer: {first_transfer_time}, buy: {first_buy_time})"
FormatReason(first_transfer_time, first_buy_time) ==
    [text |-> BeforeBuy, transfer |-> first_transfer_time, buy |-> first_buy_time]

\* buy_data.get(receiver), None being a record without fields
BuyInfo(buys, receiver) ==
    IF receiver \in DOMAIN buys THEN buys[receiver]
    ELSE [first_buy_time |-> PyAbsent, total_amount |-> PyAbsent]

\* the test "buy_info is None", negated
HasBuyMutant(buys, receiver) == TRUE
HasBuy(buys, receiver) == receiver \in DOMAIN buys

\* the dict appended to phishy_addresses
Verdict(receiver, first_transfer_time, first_buy_time, total_transferred, total_bought, transferred_without_buy, reason) ==
    [address |-> receiver,
     first_transfer_time |-> first_transfer_time,
     first_buy_time |-> first_buy_time,
     total_transferred |-> total_transferred,
     total_bought |-> total_bought,
     transferred_without_buy |-> transferred_without_buy,
     reason |-> reason]

\* lines 975-1045: the verdicts one transfer adds (none or one) and the exception
\* that leaves the function ("" for none), from what the loop body has read.
\* amounts is the outcome of the conversion, parsed that of the try block and
\* raw that of its except block.
\* (without the test "first_buy_time is None" of line 995)
DecideMutant(receiver, first_transfer_time, total_transferred, has_buy, first_buy_time, total_bought, amounts, parsed, raw) ==
    IF amounts.err # "" THEN [raised |-> amounts.err, out |-> <<>>]
    ELSE IF ~has_buy
    THEN [raised |-> "",
          out |-> <<Verdict(receiver, first_transfer_time, PyNone, total_transferred,
                            PyNum(0), amounts.transferred_float,
                            PlainReason(NeverBought))>>]
    ELSE IF parsed = "before"
    THEN [raised |-> "",
          out |-> <<Verdict(receiver, first_transfer_time, first_buy_time, total_transferred,
                            total_bought, amounts.transferred_without_buy,
                            FormatReason(first_transfer_time, first_buy_time))>>]
    ELSE IF parsed = "notbefore" THEN [raised |-> "", out |-> <<>>]
    ELSE IF raw = "before"
    THEN [raised |-> "",
          out |-> <<Verdict(receiver, first_transfer_time, first_buy_time, total_transferred,
                            total_bought, amounts.transferred_without_buy,
                            PlainReason(StringComparison))>>]
    ELSE IF raw = "notbefore" THEN [raised |-> "", out |-> <<>>]
    ELSE [raised |-> raw, out |-> <<>>]
Decide(receiver, first_transfer_time, total_transferred, has_buy, first_buy_time, total_bought, amounts, parsed, raw) ==
    IF amounts.err # "" THEN [raised |-> amounts.err, out |-> <<>>]
    ELSE IF ~has_buy
    THEN [raised |-> "",
          out |-> <<Verdict(receiver, first_transfer_time, PyNone, total_transferred,
                            PyNum(0), amounts.transferred_float,
                            PlainReason(NeverBought))>>]
    ELSE IF first_buy_time.k = "none"
    THEN [raised |-> "",
          out |-> <<Verdict(receiver, first_transfer_time, first_buy_time, total_transferred,
                            total_bought, amounts.transferred_without_buy,
                            PlainReason(NoTimestamp))>>]
    ELSE IF parsed = "before"
    THEN [raised |-> "",
          out |-> <<Verdict(receiver, first_transfer_time, first_buy_time, total_transferred,
                            total_bought, amounts.transferred_without_buy,
                            FormatReason(first_transfer_time, first_buy_time))>>]
    ELSE IF parsed = "notbefore" THEN [raised |-> "", out |-> <<>>]
    ELSE IF raw = "before"
    THEN [raised |-> "",
          out |-> <<Verdict(receiver, first_transfer_time, first_buy_time, total_transferred,
                            total_bought, amounts.transferred_without_buy,
                            PlainReason(StringComparison))>>]
    ELSE IF raw = "notbefore" THEN [raised |-> "", out |-> <<>>]
    ELSE [raised |-> raw, out |-> <<>>]

\* lines 964-982: what the loop body reads from the transfer and its buy record
Convert(receiver, first_transfer_time, total_transferred, has_buy, first_buy_time, total_bought) ==
    Decide(receiver, first_transfer_time, total_transferred, has_buy, first_buy_time,
           total_bought, ConvertAmounts(total_transferred, total_bought),
           CompareParsed(first_transfer_time, first_buy_time),
           CompareRaw(first_transfer_time, first_buy_time))

\* one iteration of the loop over transfers
ClassifyOne(transfer, buys) ==
    Convert(transfer.receiver,
            Get(transfer.first_transfer, PyNone),
            Get(transfer.total_transferred_amount, PyNum(0)),
            HasBuy(buys, transfer.receiver),
            Get(BuyInfo(buys, transfer.receiver).first_buy_time, PyNone),
            IF HasBuy(buys, transfer.receiver)
            THEN Get(BuyInfo(buys, transfer.receiver).total_amount, PyNum(0))
            ELSE PyNum(0))

(***************************************************************************)
(* Inputs of the classifier                                                *)
(***************************************************************************)
MaxTransfers == 2

Addresses == {"A", "B"}

Day == <<"2", "0", "2", "4", "-", "0", "1", "-", "0", "1">>
\* 2024-01-01T00:00:00, no offset
TsNaive == Day \o <<"T", "0", "0", ":", "0", "0", ":", "0", "0">>
\* 2024-01-01T00:00:00Z
TsZulu == TsNaive \o <<"Z">>
\* 2024-01-01T01:00:00+02:00, one hour before TsZulu
TsEast == Day \o <<"T", "0", "1", ":", "0", "0", ":", "0", "0", "+", "0", "2", ":", "0", "0">>
Soon == <<"s", "o", "o", "n">>

\* values of Block.first_transfer and of first_buy_time
TransferTimes ==
    {PyAbsent, PyStr(Day), PyStr(TsNaive), PyStr(TsZulu), PyStr(TsEast), PyStr(Soon), PyNum(5)}
BuyTimes ==
    {PyAbsent, PyNone, PyStr(TsNaive), PyStr(TsZulu), PyStr(TsEast), PyStr(Soon), PyNum(7)}

\* values of total_transferred_amount and of total_amount
Amounts ==
    {PyAbsent, PyNone, PyNum(30), PyStr(<<"2", ".", "5">>), PyStr(<<"a", "b", "c">>),
     PyList, PyHuge}

TransferRecord(a, t, m) ==
    [receiver |-> a, first_transfer |-> t, total_transferred_amount |-> m]
BuyRecord(t, m) == [first_buy_time |-> t, total_amount |-> m]

\* the records of receiver A vary one field at a time, those of B are few
TransferRecords ==
    {TransferRecord("A", t, PyStr(<<"2", ".", "5">>)) : t \in TransferTimes}
    \cup {TransferRecord("A", PyStr(TsZulu), m) : m \in Amounts}
    \cup {TransferRecord("B", t, PyNum(30)) : t \in {PyNone, PyStr(TsEast)}}
BuyRecordsOf(a) ==
    IF a = "A"
    THEN {BuyRecord(t, PyStr(<<"2", ".", "5">>)) : t \in BuyTimes}
         \cup {BuyRecord(PyNone, m) : m \in Amounts}
    ELSE {BuyRecord(PyStr(TsZulu), PyNum(30)), BuyRecord(PyNone, PyStr(<<"a", "b", "c">>))}

TransferLists == UNION {[1..n -> TransferRecords] : n \in 0..MaxTransfers}
BuyMaps ==
    UNION {{f \in [D -> UNION {BuyRecordsOf(a) : a \in D}] :
               \A a \in D : f[a] \in BuyRecordsOf(a)} : D \in SUBSET Addresses}

(***************************************************************************)
(* State                                                                   *)
(***************************************************************************)
VARIABLES
    transfers,          \* argument of analyze_phishy_behavior_pumpfun
    buy_data,           \* argument of analyze_phishy_behavior_pumpfun
    pos,                \* the transfer the for loop is at
    phishy_addresses,   \* the list the loop appends to
    pc,                 \* "idle", "loop", "returned" or "raised"
    ret,                \* the tuple returned
    exc,                \* the exception that left the function
    memo,               \* an earlier call a caller kept: its arguments and result
    API_KEY,            \* app.py: whether BITQUERY_API_KEY is set
    phishy_tokens_cache,\* app.py: the deque of the recent phishy tokens
    alive,              \* whether the server process runs
    now,                \* datetime.now(), a logical clock
    upstream,           \* what the clients and the upstream services may send
    posts,              \* POST /api/check requests received
    req,                \* the locals of the check_token call in progress
    response,           \* the last HTTP response sent
    request,            \* history: the body of the last POST /api/check received
    worker,             \* a second thread of the server, serving POST /api/check
    lister,             \* a thread of the server, serving GET /api/recent-phishy
    fetch_log,          \* history: the upstream calls of the request in progress
    appended            \* history: every entry appended to the cache, in order

analyzeVars == <<transfers, buy_data, pos, phishy_addresses, pc, ret, exc>>
appVars == <<API_KEY, phishy_tokens_cache, alive, now, upstream, posts, req, response,
             request, worker, lister, fetch_log, appended>>
vars == <<analyzeVars, memo, appVars>>

NoResult == [phishy_count |-> 0, phishy_addresses |-> <<>>]

NoMemo == [kept |-> FALSE, between |-> FALSE, transfers |-> <<>>, buy_data |-> <<>>,
           ret |-> NoResult]

InitClassifier ==
    /\ memo = NoMemo
    /\ transfers = <<>>
    /\ buy_data = [a \in {} |-> BuyRecord(PyNone, PyNone)]
    /\ pos = 1
    /\ phishy_addresses = <<>>
    /\ pc = "idle"
    /\ ret = NoResult
    /\ exc = ""

\* phishy_addresses = []
NewListMutant == phishy_addresses
NewList == <<>>

\* phishy_addresses.append(...) for each verdict of out
AppendAllMutant(list, out) == out \o list
AppendAll(list, out) == list \o out

\* a call analyze_phishy_behavior_pumpfun(t, b) with t in T and b in B
CallWith(T, B) ==
    /\ \E t \in T, b \in B :
          /\ transfers' = t
          /\ buy_data' = b
    /\ phishy_addresses' = NewList
    /\ pos' = 1
    /\ pc' = "loop"
    /\ ret' = NoResult
    /\ exc' = ""

\* the call under analysis
Call ==
    /\ pc = "idle"
    /\ CallWith(TransferLists, BuyMaps)
    /\ UNCHANGED <<memo, appVars>>

\* the body of the loop, step being what it does with transfers[pos]
LoopBody(step) ==
    IF step.raised # ""
    THEN /\ pc' = "raised"
         /\ exc' = step.raised
         /\ UNCHANGED <<pos, phishy_addresses>>
    ELSE /\ phishy_addresses' = AppendAll(phishy_addresses, step.out)
         /\ pos' = pos + 1
         /\ UNCHANGED <<pc, exc>>

\* one pass through the body of: for transfer in transfers
\* (the receiver's buy record taken out of the map: buy_data.pop(receiver, None))
IterateMutant ==
    /\ pc = "loop"
    /\ pos <= Len(transfers)
    /\ LoopBody(ClassifyOne(transfers[pos], buy_data))
    /\ buy_data' = [a \in DOMAIN buy_data \ {transfers[pos].receiver} |-> buy_data[a]]
    /\ UNCHANGED <<transfers, ret, memo, appVars>>
Iterate ==
    /\ pc = "loop"
    /\ pos <= Len(transfers)
    /\ LoopBody(ClassifyOne(transfers[pos], buy_data))
    /\ UNCHANGED <<transfers, buy_data, ret, memo, appVars>>

\* return len(phishy_addresses), phishy_addresses
Return ==
    /\ pc = "loop"
    /\ pos > Len(transfers)
    /\ ret' = [phishy_count |-> Len(phishy_addresses), phishy_addresses |-> phishy_addresses]
    /\ pc' = "returned"
    /\ UNCHANGED <<transfers, buy_data, pos, phishy_addresses, exc, memo, appVars>>

NextAnalyze == Call \/ Iterate \/ Return

(***************************************************************************)
(* Calls one after the other, in one process: the caller keeps the result  *)
(* of one call and compares a later call on the same arguments with it.    *)
(***************************************************************************)
RepeatRecords ==
    {TransferRecord("A", PyStr(TsEast), PyStr(<<"2", ".", "5">>)),
     TransferRecord("A", PyStr(Soon), PyStr(<<"2", ".", "5">>)),
     TransferRecord("B", PyNone, PyNum(30))}
RepeatLists == {t \in TransferLists : \A j \in 1..Len(t) : t[j] \in RepeatRecords}
RepeatMaps ==
    {b \in BuyMaps :
        /\ "A" \in DOMAIN b => b["A"] = BuyRecord(PyStr(TsZulu), PyStr(<<"2", ".", "5">>))
        /\ "B" \in DOMAIN b => b["B"] = BuyRecord(PyNone, PyStr(<<"a", "b", "c">>))}

\* the next call, after the one before has returned or raised
CallAgain ==
    /\ pc # "loop"
    /\ CallWith(RepeatLists, RepeatMaps)
    /\ memo' = [memo EXCEPT !.between =
                   @ \/ (memo.kept /\ <<transfers', buy_data'>> # <<memo.transfers, memo.buy_data>>)]
    /\ UNCHANGED appVars

\* phishy_count, phishy_addresses = analyze_phishy_behavior_pumpfun(transfers, buy_data)
Keep ==
    /\ pc = "returned"
    /\ ~memo.kept
    /\ memo' = [kept |-> TRUE, between |-> FALSE, transfers |-> transfers,
                buy_data |-> buy_data, ret |-> ret]
    /\ UNCHANGED <<analyzeVars, appVars>>

NextRepeat == CallAgain \/ Iterate \/ Return \/ Keep

(***************************************************************************)
(* The classifier as the handler calls it: the whole loop on one call      *)
(***************************************************************************)
RECURSIVE AnalyzeFrom(_, _, _)
\* the body of the loop at Head(ts), step being what it does with it
AnalyzeStep(ts, buys, list, step) ==
    IF step.raised # ""
    THEN [raised |-> step.raised, phishy_count |-> 0, phishy_addresses |-> <<>>]
    ELSE AnalyzeFrom(Tail(ts), buys, AppendAll(list, step.out))

\* the loop from ts on, list being phishy_addresses so far
AnalyzeFrom(ts, buys, list) ==
    IF ts = <<>>
    THEN [raised |-> "", phishy_count |-> Len(list), phishy_addresses |-> list]
    ELSE AnalyzeStep(ts, buys, list, ClassifyOne(Head(ts), buys))

analyze_phishy_behavior_pumpfun(ts, buys) == AnalyzeFrom(ts, buys, <<>>)

(***************************************************************************)
(* The upstream: what make_graphql_request gets for one query. kind is     *)
(*   "data"        {"data": {"Solana": {<collection>: rows}}}              *)
(*   "errors"      {"errors": [...]}                                       *)
(*   "errors_null" {"data": null, "errors": [...]}                         *)
(*   "unexpected"  {} (neither data nor errors)                            *)
(*   "transport"   requests raises RequestException: sys.exit(1)           *)
(***************************************************************************)
Gql(kind, rows) == [kind |-> kind, rows |-> rows]

Failed == {"errors", "errors_null", "unexpected", "transport"}

\* response["data"].get("Solana") raises on {"data": null}
DataIsNull(r) == r.kind = "errors_null"

\* the rows a fetcher reads under data.Solana, [] when there is no data
RowsOf(r) == IF r.kind = "data" THEN r.rows ELSE <<>>

Value(v) == [raised |-> "", value |-> v]
Raised(e) == [raised |-> e, value |-> <<>>]

NoCurve == [found |-> FALSE, bonding_curve |-> <<>>, creator_address |-> <<>>,
            is_mayhem_mode |-> FALSE, token_uri |-> ""]

\* the dict of the first create instruction, None (NoCurve) when there is none
get_bonding_curve_address(r) ==
    IF r.kind \in {"errors", "errors_null"} THEN Value(NoCurve)
    ELSE IF RowsOf(r) = <<>> THEN Value(NoCurve)
    ELSE Value(RowsOf(r)[1])

check_token_graduated(r) ==
    IF DataIsNull(r) THEN Raised("AttributeError") ELSE Value(RowsOf(r) # <<>>)

get_top_holders_pumpfun(r) ==
    IF DataIsNull(r) THEN Raised("AttributeError") ELSE Value(RowsOf(r))

\* get_pump_tokens_count and get_trades_count_last_6h: rows holds the count
get_count(r) ==
    IF DataIsNull(r) THEN Raised("AttributeError")
    ELSE IF RowsOf(r) = <<>> THEN Value(0) ELSE Value(RowsOf(r)[1])

\* None is -1
get_liquidity_for_pool(r) ==
    IF DataIsNull(r) THEN Raised("AttributeError")
    ELSE IF RowsOf(r) = <<>> THEN Value(-1) ELSE Value(RowsOf(r)[1])

get_first_transfers_pumpfun(r) ==
    IF DataIsNull(r) THEN Raised("AttributeError") ELSE Value(RowsOf(r))

EmptyDict == [a \in {} |-> BuyRecord(PyNone, PyNone)]

\* rows is the mapping the loop over DEXTradeByTokens builds
get_first_buys_pumpfun(r) ==
    IF DataIsNull(r) THEN Raised("AttributeError")
    ELSE IF r.kind = "data" THEN Value(r.rows) ELSE Value(EmptyDict)

(***************************************************************************)
(* app.py                                                                  *)
(***************************************************************************)
CacheMaxLen == 100
MinAddressLen == 32
MaxAddressLen == 44

RECURSIVE Repeat(_, _)
Repeat(c, n) == IF n = 0 THEN <<>> ELSE <<c>> \o Repeat(c, n - 1)

RECURSIVE LStrip(_)
LStrip(s) == IF s # <<>> /\ Head(s) = " " THEN LStrip(Tail(s)) ELSE s

RECURSIVE RStrip(_)
RStrip(s) == IF s # <<>> /\ s[Len(s)] = " " THEN RStrip(SubSeq(s, 1, Len(s) - 1)) ELSE s

\* str.strip()
Strip(s) == RStrip(LStrip(s))

validate_solana_address(token_address) ==
    /\ ~(Len(token_address) >= 2 /\ token_address[1] = "0" /\ token_address[2] = "x")
    /\ Len(token_address) >= MinAddressLen
    /\ Len(token_address) <= MaxAddressLen

\* check_phishy_token.py, main, lines 1069-1086: what the command line tool
\* does with the address given as sys.argv[1] (<<>> for none) or, without
\* one, typed at the prompt
main(argv, typed) ==
    LET token_address == IF argv # <<>> THEN argv ELSE Strip(typed)
    IN  IF token_address = <<>> THEN "required"
        ELSE IF ~(/\ Len(token_address) >= MinAddressLen
                  /\ Len(token_address) <= MaxAddressLen
                  /\ ~(Len(token_address) >= 2 /\ token_address[1] = "0"
                                                /\ token_address[2] = "x"))
        THEN "invalid"
        ELSE "accepted"

RECURSIVE Reverse(_)
\* list.reverse()
\* (the list left as it is)
ReverseMutant(list) == list
Reverse(list) == IF list = <<>> THEN <<>> ELSE Reverse(Tail(list)) \o <<Head(list)>>

\* deque(maxlen=100).append(entry)
CacheAppendMutant(cache, entry) == cache \o <<entry>>
CacheAppend(cache, entry) ==
    IF Len(cache) >= CacheMaxLen THEN Tail(cache) \o <<entry>> ELSE cache \o <<entry>>

\* float(addr.get(field, 0) or 0)
FloatOrZeroOf(v) == IF Truthy(v) THEN FloatOf(v) ELSE [err |-> "", val |-> 0]

RECURSIVE SumField(_, _)
\* sum(float(addr.get(field, 0) or 0) for addr in phishy_addresses): the
\* exception raised ("" for none) and the sum
SumField(verdicts, field) ==
    IF verdicts = <<>> THEN [err |-> "", val |-> 0]
    ELSE LET x == FloatOrZeroOf(Head(verdicts)[field])
             rest == SumField(Tail(verdicts), field)
         IN  IF x.err # "" THEN x
             ELSE IF rest.err # "" THEN rest
             ELSE [err |-> "", val |-> x.val + rest.val]

Totals(verdicts) ==
    LET t == SumField(verdicts, "total_transferred")
        b == SumField(verdicts, "total_bought")
        w == SumField([j \in 1..Len(verdicts) |->
                          [twb |-> PyNum(verdicts[j].transferred_without_buy)]], "twb")
    IN  IF t.err # "" THEN Raised(t.err)
        ELSE IF b.err # "" THEN Raised(b.err)
        ELSE IF w.err # "" THEN Raised(w.err)
        ELSE Value([total_transferred |-> t.val, total_bought |-> b.val,
                    total_without_buy |-> w.val])

(***************************************************************************)
(* analyze_holder_distribution. Holdings are whole millions of tokens and  *)
(* percentages are hundredths of a percent, so that both supplies divide.  *)
(***************************************************************************)
MAYHEM_AI_AGENT_ADDRESS ==
    <<"B", "w", "W", "K", "1", "7", "c", "b", "H", "x", "w", "W", "B", "K", "Z", "k", "U",
    "Y", "v", "z", "x", "L", "c", "N", "Q", "1", "Y", "V", "y", "a", "F", "e", "z", "d", "u",
    "W", "b", "t", "m", "2", "d", "e", "6", "s">>

\* total_supply, in millions
\* (one supply for every token)
TotalSupplyMutant(is_mayhem_mode) == 1000
TotalSupply(is_mayhem_mode) == IF is_mayhem_mode THEN 2000 ELSE 1000

\* round((holding / total_supply) * 100, 2), in hundredths
PercentHolding(holding, is_mayhem_mode) == (holding * 10000) \div TotalSupply(is_mayhem_mode)

RECURSIVE SumHoldings(_)
SumHoldings(holders) ==
    IF holders = <<>> THEN 0 ELSE Head(holders).holding + SumHoldings(Tail(holders))

CouldNotFetch ==
    [creator_percent |-> 0, creator_check_passed |-> TRUE,
     other_holders_check_passed |-> TRUE, top10_percent |-> 0,
     top10_check_passed |-> TRUE, failed_holder |-> <<>>,
     error |-> "Could not fetch holders"]

\* top_holders is what its call of get_top_holders_pumpfun returned; None is <<>>
\* (without lines 161-170: no holders are analysed as any other list)
analyze_holder_distributionMutant(top_holders, creator_address, bonding_curve, is_mayhem_mode) ==
    LET total_supply == TotalSupply(is_mayhem_mode)
        holders_with_percent ==
            SelectSeq(top_holders,
                      LAMBDA holder :
                          /\ ~(bonding_curve # <<>> /\ holder.address = bonding_curve)
                          /\ holder.address # MAYHEM_AI_AGENT_ADDRESS)
        IsCreator(j) == creator_address # <<>> /\ holders_with_percent[j].address = creator_address
        creators == {j \in 1..Len(holders_with_percent) : IsCreator(j)}
        creator_in_top10 == creators # {}
        creator == CHOOSE j \in creators : \A k \in creators : j <= k
        creator_holding == IF creator_in_top10 THEN holders_with_percent[creator].holding ELSE 0
        failing == {j \in 1..Len(holders_with_percent) :
                       ~IsCreator(j) /\ holders_with_percent[j].holding * 100 >= 5 * total_supply}
        failed == CHOOSE j \in failing : \A k \in failing : j <= k
    IN       [creator_percent |-> PercentHolding(creator_holding, is_mayhem_mode),
              creator_check_passed |-> ~creator_in_top10 \/ creator_holding * 100 < 5 * total_supply,
              other_holders_check_passed |-> failing = {},
              top10_percent |-> PercentHolding(SumHoldings(holders_with_percent), is_mayhem_mode),
              top10_check_passed |-> SumHoldings(holders_with_percent) * 100 < 70 * total_supply,
              failed_holder |-> IF failing = {} THEN <<>> ELSE holders_with_percent[failed].address]
analyze_holder_distribution(top_holders, creator_address, bonding_curve, is_mayhem_mode) ==
    LET total_supply == TotalSupply(is_mayhem_mode)
        holders_with_percent ==
            SelectSeq(top_holders,
                      LAMBDA holder :
                          /\ ~(bonding_curve # <<>> /\ holder.address = bonding_curve)
                          /\ holder.address # MAYHEM_AI_AGENT_ADDRESS)
        IsCreator(j) == creator_address # <<>> /\ holders_with_percent[j].address = creator_address
        creators == {j \in 1..Len(holders_with_percent) : IsCreator(j)}
        creator_in_top10 == creators # {}
        creator == CHOOSE j \in creators : \A k \in creators : j <= k
        creator_holding == IF creator_in_top10 THEN holders_with_percent[creator].holding ELSE 0
        failing == {j \in 1..Len(holders_with_percent) :
                       ~IsCreator(j) /\ holders_with_percent[j].holding * 100 >= 5 * total_supply}
        failed == CHOOSE j \in failing : \A k \in failing : j <= k
    IN  IF top_holders = <<>> THEN CouldNotFetch
        ELSE [creator_percent |-> PercentHolding(creator_holding, is_mayhem_mode),
              creator_check_passed |-> ~creator_in_top10 \/ creator_holding * 100 < 5 * total_supply,
              other_holders_check_passed |-> failing = {},
              top10_percent |-> PercentHolding(SumHoldings(holders_with_percent), is_mayhem_mode),
              top10_check_passed |-> SumHoldings(holders_with_percent) * 100 < 70 * total_supply,
              failed_holder |-> IF failing = {} THEN <<>> ELSE holders_with_percent[failed].address]

(***************************************************************************)
(* app.py: requests, responses and the locals of check_token               *)
(***************************************************************************)
MaxPosts == 2
CachePosts == 102

Body(token_address, bonding_curve, token_type) ==
    [json |-> TRUE, token_address |-> token_address, bonding_curve |-> bonding_curve,
     token_type |-> token_type]
\* a request whose body is no JSON object
NotJson == [Body(PyAbsent, PyAbsent, PyAbsent) EXCEPT !.json = FALSE]

IdleReq ==
    [pc |-> "idle", token_address |-> <<>>, bonding_curve |-> <<>>,
     bonding_curve_data |-> NoCurve, top_holders |-> <<>>, h |-> 1, pump_tokens |-> 0,
     holders_with_stats |-> <<>>, refetch |-> FALSE, transfers |-> <<>>, ipfs |-> FALSE,
     liquidity_sol |-> -1, holder_analysis |-> CouldNotFetch, phishy_count |-> 0,
     phishy_addresses |-> <<>>]

NoResponse == [status |-> 0, body |-> EmptyDict]
Error(status, error) == [status |-> status, body |-> [success |-> FALSE, error |-> error]]
Info(status, error) ==
    [status |-> status, body |-> [success |-> FALSE, error |-> error, error_type |-> "info"]]
\* except Exception as e: the 500 response with str(e)
Unexpected(e) == Error(500, e)

\* 'phishy': phishy_count > 0
PhishyMutant(phishy_count) == phishy_count >= 0
Phishy(phishy_count) == phishy_count > 0

token_creation(r) ==
    IF r.bonding_curve_data.found
    THEN [creator_address |-> r.bonding_curve_data.creator_address]
    ELSE EmptyDict

token_metadata(r) ==
    IF ~r.bonding_curve_data.found THEN EmptyDict
    ELSE IF r.ipfs
    THEN [is_mayhem_mode |-> r.bonding_curve_data.is_mayhem_mode,
          uri |-> r.bonding_curve_data.token_uri, image |-> "ipfs"]
    ELSE [is_mayhem_mode |-> r.bonding_curve_data.is_mayhem_mode,
          uri |-> r.bonding_curve_data.token_uri]

\* the response of lines 209-226
NoTransfers(r) ==
    [status |-> 200,
     body |-> [success |-> TRUE, phishy |-> FALSE, token_type |-> "pumpfun",
               message |-> "No transfers found for this token",
               data |-> [total_addresses |-> 0, phishy_count |-> 0, phishy_addresses |-> <<>>,
                         top_holders |-> r.holders_with_stats,
                         bonding_curve |-> r.bonding_curve,
                         mayhem_ai_agent |-> MAYHEM_AI_AGENT_ADDRESS,
                         token_creation |-> token_creation(r),
                         token_metadata |-> token_metadata(r),
                         holder_analysis |-> r.holder_analysis,
                         liquidity_sol |-> r.liquidity_sol]]]

\* result['data'] of lines 254-266
ResultData(r) ==
    [total_addresses |-> Len(r.transfers), phishy_count |-> r.phishy_count,
     normal_count |-> Len(r.transfers) - r.phishy_count,
     phishy_addresses |-> r.phishy_addresses, top_holders |-> r.holders_with_stats,
     bonding_curve |-> r.bonding_curve, mayhem_ai_agent |-> MAYHEM_AI_AGENT_ADDRESS,
     token_creation |-> token_creation(r), token_metadata |-> token_metadata(r),
     holder_analysis |-> r.holder_analysis, liquidity_sol |-> r.liquidity_sol]

\* result['data']['totals'] = totals
WithTotals(data, totals) ==
    [f \in DOMAIN data \cup {"totals"} |-> IF f = "totals" THEN totals ELSE data[f]]

Result(r, data) ==
    [status |-> 200,
     body |-> [success |-> TRUE, phishy |-> Phishy(r.phishy_count),
               token_address |-> r.token_address, token_type |-> "pumpfun", data |-> data]]

CacheEntry(r, totals) ==
    [token_address |-> r.token_address, token_type |-> "pumpfun",
     phishy_count |-> r.phishy_count, timestamp |-> now, totals |-> totals]

\* the entry of holders_with_stats for top_holders[h]; the second loop (refetch)
\* leaves percent_holding out
HolderStats(r, trades_6h) ==
    LET holder == r.top_holders[r.h]
    IN  IF r.refetch
        THEN [address |-> holder.address, holding |-> holder.holding,
              pump_tokens_count |-> r.pump_tokens, trades_6h |-> trades_6h]
        ELSE [address |-> holder.address, holding |-> holder.holding,
              percent_holding |->
                  PercentHolding(holder.holding, r.bonding_curve_data.is_mayhem_mode),
              pump_tokens_count |-> r.pump_tokens, trades_6h |-> trades_6h]

\* the trades the upstream returns for $buyersList
Restrict(rows, addresses) ==
    [a \in DOMAIN rows \cap {addresses[j] : j \in 1..Len(addresses)} |-> rows[a]]

(***************************************************************************)
(* What the clients send and what the upstream answers                     *)
(***************************************************************************)
Token1 == Repeat("a", MinAddressLen)
Token2 == Repeat("b", MaxAddressLen)
Curve == <<"c", "u", "r", "v", "e">>
Dev == <<"d", "e", "v">>
Holder1 == <<"h", "1">>

Created(is_mayhem_mode, token_uri) ==
    [found |-> TRUE, bonding_curve |-> Curve, creator_address |-> Dev,
     is_mayhem_mode |-> is_mayhem_mode, token_uri |-> token_uri]

Holder(address, holding) == [address |-> address, holding |-> holding]

TransferA == TransferRecord("A", PyStr(TsEast), PyStr(<<"2", ".", "5">>))
TransferB == TransferRecord("B", PyNone, PyNum(30))
TransferBad == TransferRecord("A", PyStr(TsZulu), PyStr(<<"a", "b", "c">>))

BuysOf(a, t, m) == [x \in {a} |-> BuyRecord(t, m)]

AllFailures == {Gql(k, <<>>) : k \in Failed}
SomeFailures == {Gql(k, <<>>) : k \in {"errors", "errors_null", "transport"}}

Varied ==
    [posts |-> MaxPosts,
     keys |-> BOOLEAN,
     bodies |->
         {NotJson,
          Body(PyAbsent, PyAbsent, PyAbsent),
          Body(PyNone, PyAbsent, PyAbsent),
          Body(PyStr(<<" ">>), PyAbsent, PyAbsent),
          Body(PyStr(Repeat("a", MinAddressLen - 1)), PyAbsent, PyAbsent),
          Body(PyStr(Repeat("a", MaxAddressLen + 1)), PyAbsent, PyAbsent),
          Body(PyStr(<<" ">> \o Repeat("a", MinAddressLen - 1) \o <<" ">>), PyAbsent, PyAbsent),
          Body(PyStr(<<"0", "x">> \o Repeat("a", MinAddressLen)), PyAbsent, PyAbsent),
          Body(PyStr(<<" ">> \o Token1 \o <<" ">>), PyAbsent, PyStr(<<"x">>)),
          Body(PyStr(Token2), PyStr(<<" ">> \o Curve), PyAbsent),
          Body(PyStr(Token1), PyAbsent, PyNone)},
     bonding |->
         {Gql("data", <<Created(TRUE, "uri")>>), Gql("data", <<>>)} \cup AllFailures,
     graduated |-> {Gql("data", <<>>), Gql("data", <<"migrate">>)} \cup SomeFailures,
     holders |->
         {Gql("data", <<Holder(Holder1, 50)>>),
          Gql("data", <<Holder(Curve, 700), Holder(Dev, 60)>>)} \cup SomeFailures,
     pump_tokens |-> {Gql("data", <<3>>)} \cup SomeFailures,
     trades_6h |-> {Gql("data", <<4>>), Gql("errors_null", <<>>), Gql("transport", <<>>)},
     transfers |->
         {Gql("data", <<>>), Gql("data", <<TransferA>>), Gql("data", <<TransferA, TransferB>>),
          Gql("data", <<TransferBad>>)} \cup AllFailures,
     ipfs |-> BOOLEAN,
     liquidity |-> {Gql("data", <<85>>), Gql("errors_null", <<>>), Gql("transport", <<>>)},
     buys |->
         {Gql("data", EmptyDict),
          Gql("data", BuysOf("A", PyStr(TsZulu), PyStr(<<"2", ".", "5">>))),
          Gql("data", BuysOf("A", PyStr(TsEast), PyStr(<<"2", ".", "5">>))),
          Gql("data", BuysOf("A", PyNum(7), PyStr(<<"2", ".", "5">>)))} \cup AllFailures]

\* one token, found phishy on every request
Steady ==
    [posts |-> CachePosts,
     keys |-> {TRUE},
     bodies |-> {Body(PyStr(Token1), PyAbsent, PyAbsent)},
     bonding |-> {Gql("data", <<Created(TRUE, "uri")>>)},
     graduated |-> {Gql("data", <<>>)},
     holders |-> {Gql("data", <<Holder(Holder1, 50)>>)},
     pump_tokens |-> {Gql("data", <<3>>)},
     trades_6h |-> {Gql("data", <<4>>)},
     transfers |-> {Gql("data", <<TransferA>>)},
     ipfs |-> {TRUE},
     liquidity |-> {Gql("data", <<85>>)},
     buys |-> {Gql("data", EmptyDict)}]

\* no client
Quiet == [Steady EXCEPT !.posts = 0]

\* one request
OnePost == 1

Holder2 == <<"h", "2">>

\* the rows of a BalanceUpdates answer: one or two holders, no owner twice
HolderRows ==
    {Holder(Dev, 40), Holder(Dev, 50), Holder(Holder1, 100), Holder(Holder1, 700),
     Holder(Holder2, 100), Holder(Holder2, 650), Holder(Curve, 700),
     Holder(MAYHEM_AI_AGENT_ADDRESS, 700)}
HolderLists ==
    {<<a>> : a \in HolderRows}
        \cup {<<p[1], p[2]>> : p \in {q \in HolderRows \X HolderRows :
                                           q[1].address # q[2].address}}

\* one token with these top holders, created in Mayhem mode or not; the
\* client may give the bonding curve, and then no creator is known
Crowded(holders, is_mayhem_mode) ==
    [Steady EXCEPT !.posts = OnePost,
                   !.bodies = {Body(PyStr(Token1), PyAbsent, PyAbsent),
                               Body(PyStr(Token2), PyStr(Curve), PyAbsent)},
                   !.bonding = {Gql("data", <<Created(is_mayhem_mode, "uri")>>)},
                   !.holders = {Gql("data", holders)}]

(***************************************************************************)
(* app.py: the server                                                      *)
(***************************************************************************)
\* the locals of the two other threads, nothing being served
IdleWorker == [pc |-> "idle", token_address |-> <<>>]
IdleLister == [pc |-> "idle", recent |-> <<>>]

InitApp(u) ==
    /\ upstream = u
    /\ API_KEY \in u.keys
    /\ phishy_tokens_cache = <<>>
    /\ alive = TRUE
    /\ now = 0
    /\ posts = 0
    /\ req = IdleReq
    /\ response = NoResponse
    /\ request = NotJson
    /\ worker = IdleWorker
    /\ lister = IdleLister
    /\ fetch_log = <<>>
    /\ appended = <<>>

\* return jsonify(...)
Reply(r) ==
    /\ response' = r
    /\ req' = IdleReq

\* addresses = [t["Transfer"]["Receiver"]["Token"]["Owner"] for t in transfers]
\* (the last receiver left out)
ReceiversMutant(ts) == [j \in 1..(Len(ts) - 1) |-> ts[j].receiver]
Receivers(ts) == [j \in 1..Len(ts) |-> ts[j].receiver]

\* what the fetcher is called with, the credential left out
Arguments(query) ==
    CASE query = "buys" -> <<req.token_address, Receivers(req.transfers)>>
      [] query \in {"pump_tokens", "trades_6h"} -> <<req.top_holders[req.h].address>>
      [] query = "transfers" -> <<req.token_address, req.bonding_curve>>
      [] query = "liquidity" -> <<req.bonding_curve>>
      [] query = "ipfs" -> <<req.bonding_curve_data.token_uri>>
      [] OTHER -> <<req.token_address>>

Log(query, o, result) ==
    fetch_log' = Append(fetch_log, [query |-> query, args |-> Arguments(query),
                                    kind |-> o.kind, result |-> result])

Emptiness(empty) == IF empty THEN "empty" ELSE "value"

\* sys.exit(1) in make_graphql_request: SystemExit passes "except Exception",
\* the request gets no response, and the server decides whether the process
\* goes with it
Dies(query, o) ==
    /\ Log(query, o, "exit")
    /\ response' = NoResponse
    /\ req' = IdleReq
    /\ alive' \in BOOLEAN
    /\ UNCHANGED <<phishy_tokens_cache, appended>>

\* an exception raised in the fetcher reaches "except Exception"
Fails(query, o, e) ==
    /\ Log(query, o, "raised")
    /\ Reply(Unexpected(e))
    /\ UNCHANGED <<alive, phishy_tokens_cache, appended>>

\* the fetcher returned and the handler answers with r
Ends(query, o, empty, r) ==
    /\ Log(query, o, Emptiness(empty))
    /\ Reply(r)
    /\ UNCHANGED <<alive, phishy_tokens_cache, appended>>

\* the fetcher returned and the handler goes on with the locals r
\* (the handler stays where it is and fetches again)
GoesMutant(query, o, empty, r) ==
    /\ Log(query, o, Emptiness(empty))
    /\ req' = req
    /\ UNCHANGED <<response, alive, phishy_tokens_cache, appended>>
Goes(query, o, empty, r) ==
    /\ Log(query, o, Emptiness(empty))
    /\ req' = r
    /\ UNCHANGED <<response, alive, phishy_tokens_cache, appended>>

\* lines 249-299: the result, the totals and the cache
\* (the totals and the cache entry without the test of line 270)
FinishWithMutant(r, totals) ==
    IF totals.raised # ""
    THEN /\ Reply(Unexpected(totals.raised))
         /\ UNCHANGED <<phishy_tokens_cache, appended>>
    ELSE /\ Reply(Result(r, WithTotals(ResultData(r), totals.value)))
         /\ phishy_tokens_cache' = CacheAppend(phishy_tokens_cache, CacheEntry(r, totals.value))
         /\ appended' = Append(appended, CacheEntry(r, totals.value))
FinishWith(r, totals) ==
    IF r.phishy_count > 0 /\ totals.raised # ""
    THEN /\ Reply(Unexpected(totals.raised))
         /\ UNCHANGED <<phishy_tokens_cache, appended>>
    ELSE IF r.phishy_count > 0
    THEN /\ Reply(Result(r, WithTotals(ResultData(r), totals.value)))
         /\ phishy_tokens_cache' = CacheAppend(phishy_tokens_cache, CacheEntry(r, totals.value))
         /\ appended' = Append(appended, CacheEntry(r, totals.value))
    ELSE /\ Reply(Result(r, ResultData(r)))
         /\ UNCHANGED <<phishy_tokens_cache, appended>>

Finish(query, o, empty, r) ==
    /\ Log(query, o, Emptiness(empty))
    /\ UNCHANGED alive
    /\ FinishWith(r, Totals(r.phishy_addresses))

Frame == UNCHANGED <<analyzeVars, memo, API_KEY, upstream, now, posts, request, worker, lister>>

\* lines 69-92: what the handler makes of the body of the request
\* (a token_type other than "" has the address refused)
EntryMutant(body) ==
    LET address == Get(body.token_address, PyStr(<<>>))
        curve == Get(body.bonding_curve, PyStr(<<>>))
        type == Get(body.token_type, PyStr(<<>>))
        token_address == Strip(address.s)
        bonding_curve == Strip(curve.s)
    IN  IF ~body.json \/ address.k # "str" \/ curve.k # "str" \/ type.k # "str"
        THEN Reply(Unexpected("AttributeError"))
        ELSE IF token_address = <<>>
        THEN Reply(Error(400, "Token address is required"))
        ELSE IF ~API_KEY
        THEN Reply(Error(500, "Server configuration error: API key not found"))
        ELSE IF ~validate_solana_address(token_address) \/ Strip(type.s) # <<>>
        THEN Reply(Info(400, "Invalid Pump.fun token address"))
        ELSE /\ req' = [IdleReq EXCEPT
                           !.pc = IF bonding_curve = <<>> THEN "bonding" ELSE "graduated",
                           !.token_address = token_address,
                           !.bonding_curve = bonding_curve]
             /\ response' = NoResponse
Entry(body) ==
    LET address == Get(body.token_address, PyStr(<<>>))
        curve == Get(body.bonding_curve, PyStr(<<>>))
        type == Get(body.token_type, PyStr(<<>>))
        token_address == Strip(address.s)
        bonding_curve == Strip(curve.s)
    IN  IF ~body.json \/ address.k # "str" \/ curve.k # "str" \/ type.k # "str"
        THEN Reply(Unexpected("AttributeError"))
        ELSE IF token_address = <<>>
        THEN Reply(Error(400, "Token address is required"))
        ELSE IF ~API_KEY
        THEN Reply(Error(500, "Server configuration error: API key not found"))
        ELSE IF ~validate_solana_address(token_address)
        THEN Reply(Info(400, "Invalid Pump.fun token address"))
        ELSE /\ req' = [IdleReq EXCEPT
                           !.pc = IF bonding_curve = <<>> THEN "bonding" ELSE "graduated",
                           !.token_address = token_address,
                           !.bonding_curve = bonding_curve]
             /\ response' = NoResponse

\* POST /api/check, lines 69-92
\* (without the test of line 80: the handler goes on to the fetches whether or
\* not the credential is there)
ReceiveMutant ==
    /\ alive
    /\ req.pc = "idle"
    /\ posts < upstream.posts
    /\ \E body \in upstream.bodies :
          /\ request' = body
          /\ LET address == Get(body.token_address, PyStr(<<>>))
                 curve == Get(body.bonding_curve, PyStr(<<>>))
                 type == Get(body.token_type, PyStr(<<>>))
                 token_address == Strip(address.s)
                 bonding_curve == Strip(curve.s)
             IN  IF ~body.json \/ address.k # "str" \/ curve.k # "str" \/ type.k # "str"
                 THEN Reply(Unexpected("AttributeError"))
                 ELSE IF token_address = <<>>
                 THEN Reply(Error(400, "Token address is required"))
                 ELSE IF ~validate_solana_address(token_address)
                 THEN Reply(Info(400, "Invalid Pump.fun token address"))
                 ELSE /\ req' = [IdleReq EXCEPT
                                    !.pc = IF bonding_curve = <<>> THEN "bonding" ELSE "graduated",
                                    !.token_address = token_address,
                                    !.bonding_curve = bonding_curve]
                      /\ response' = NoResponse
    /\ posts' = posts + 1
    /\ now' = now + 1
    /\ fetch_log' = <<>>
    /\ UNCHANGED <<analyzeVars, memo, API_KEY, upstream, alive, phishy_tokens_cache, appended,
                   worker, lister>>
Receive ==
    /\ alive
    /\ req.pc = "idle"
    /\ posts < upstream.posts
    /\ \E body \in upstream.bodies :
          /\ request' = body
          /\ Entry(body)
    /\ posts' = posts + 1
    /\ now' = now + 1
    /\ fetch_log' = <<>>
    /\ UNCHANGED <<analyzeVars, memo, API_KEY, upstream, alive, phishy_tokens_cache, appended,
                   worker, lister>>

\* lines 96-110
FetchBondingCurve ==
    /\ req.pc = "bonding"
    /\ \E o \in upstream.bonding :
          LET got == get_bonding_curve_address(o)
          IN  IF o.kind = "transport" THEN Dies("bonding_curve", o)
              ELSE IF ~got.value.found
              THEN Ends("bonding_curve", o, TRUE,
                        Info(400, "App provides analysis only on recent tokens"))
              ELSE Goes("bonding_curve", o, FALSE,
                        [req EXCEPT !.bonding_curve_data = got.value,
                                    !.bonding_curve = got.value.bonding_curve,
                                    !.pc = "graduated"])
    /\ Frame

\* lines 113-120
CheckGraduated ==
    /\ req.pc = "graduated"
    /\ \E o \in upstream.graduated :
          LET got == check_token_graduated(o)
          IN  IF o.kind = "transport" THEN Dies("graduated", o)
              ELSE IF got.raised # "" THEN Fails("graduated", o, got.raised)
              ELSE IF got.value
              THEN Ends("graduated", o, FALSE,
                        Info(400, "This Pump.fun token has graduated to PumpSwap"))
              ELSE Goes("graduated", o, TRUE, [req EXCEPT !.pc = "holders"])
    /\ Frame

\* lines 126 and 235: top_holders = get_top_holders_pumpfun(token_address, API_KEY)
FetchTopHolders ==
    /\ req.pc = "holders"
    /\ \E o \in upstream.holders :
          LET got == get_top_holders_pumpfun(o)
              r == [req EXCEPT !.top_holders = got.value, !.h = 1,
                               !.holders_with_stats = <<>>]
          IN  IF o.kind = "transport" THEN Dies("top_holders", o)
              ELSE IF got.raised # "" THEN Fails("top_holders", o, got.raised)
              ELSE IF got.value # <<>>
              THEN Goes("top_holders", o, FALSE, [r EXCEPT !.pc = "pump_tokens"])
              ELSE IF req.refetch THEN Finish("top_holders", o, TRUE, r)
              ELSE Goes("top_holders", o, TRUE, [r EXCEPT !.pc = "transfers"])
    /\ Frame

\* lines 139 and 239: pump_tokens = get_pump_tokens_count(address, API_KEY)
FetchPumpTokens ==
    /\ req.pc = "pump_tokens"
    /\ \E o \in upstream.pump_tokens :
          LET got == get_count(o)
          IN  IF o.kind = "transport" THEN Dies("pump_tokens", o)
              ELSE IF got.raised # "" THEN Fails("pump_tokens", o, got.raised)
              ELSE Goes("pump_tokens", o, got.value = 0,
                        [req EXCEPT !.pump_tokens = got.value, !.pc = "trades_6h"])
    /\ Frame

\* lines 140-152 and 240-246: the rest of one pass through the loop over top_holders
FetchTrades6h ==
    /\ req.pc = "trades_6h"
    /\ \E o \in upstream.trades_6h :
          LET got == get_count(o)
              r == [req EXCEPT !.holders_with_stats = Append(@, HolderStats(req, got.value)),
                               !.h = @ + 1]
          IN  IF o.kind = "transport" THEN Dies("trades_6h", o)
              ELSE IF got.raised # "" THEN Fails("trades_6h", o, got.raised)
              ELSE IF req.h < Len(req.top_holders)
              THEN Goes("trades_6h", o, got.value = 0, [r EXCEPT !.pc = "pump_tokens"])
              ELSE IF req.refetch THEN Finish("trades_6h", o, got.value = 0, r)
              ELSE Goes("trades_6h", o, got.value = 0, [r EXCEPT !.pc = "transfers"])
    /\ Frame

\* line 166
FetchTransfers ==
    /\ req.pc = "transfers"
    /\ \E o \in upstream.transfers :
          LET got == get_first_transfers_pumpfun(o)
          IN  IF o.kind = "transport" THEN Dies("transfers", o)
              ELSE IF got.raised # "" THEN Fails("transfers", o, got.raised)
              ELSE Goes("transfers", o, got.value = <<>>,
                        [req EXCEPT !.transfers = got.value,
                                    !.pc = IF req.bonding_curve_data.found
                                              /\ req.bonding_curve_data.token_uri # ""
                                           THEN "ipfs" ELSE "liquidity"])
    /\ Frame

\* lines 190-197: fetch_ipfs_metadata catches every exception and returns None
FetchIpfs ==
    /\ req.pc = "ipfs"
    /\ \E ok \in upstream.ipfs :
          Goes("ipfs", Gql(IF ok THEN "data" ELSE "transport", <<>>), ~ok,
               [req EXCEPT !.ipfs = ok, !.pc = "liquidity"])
    /\ Frame

\* lines 200-201
FetchLiquidity ==
    /\ req.pc = "liquidity"
    /\ \E o \in upstream.liquidity :
          LET got == get_liquidity_for_pool(o)
          IN  IF o.kind = "transport" THEN Dies("liquidity", o)
              ELSE IF got.raised # "" THEN Fails("liquidity", o, got.raised)
              ELSE Goes("liquidity", o, got.value = -1,
                        [req EXCEPT !.liquidity_sol = got.value, !.pc = "holder_analysis"])
    /\ Frame

\* lines 204-226: analyze_holder_distribution fetches the top holders itself
FetchHolderAnalysis ==
    /\ req.pc = "holder_analysis"
    /\ \E o \in upstream.holders :
          LET got == get_top_holders_pumpfun(o)
              r == [req EXCEPT !.holder_analysis =
                                   analyze_holder_distribution(
                                       got.value, req.bonding_curve_data.creator_address,
                                       req.bonding_curve, req.bonding_curve_data.is_mayhem_mode),
                               !.pc = "buys"]
          IN  IF o.kind = "transport" THEN Dies("top_holders", o)
              ELSE IF got.raised # "" THEN Fails("top_holders", o, got.raised)
              ELSE IF req.transfers = <<>>
              THEN Ends("top_holders", o, got.value = <<>>, NoTransfers(r))
              ELSE Goes("top_holders", o, got.value = <<>>, r)
    /\ Frame

\* lines 231-246, analysis being what analyze_phishy_behavior_pumpfun did
Analyzed(o, buys, analysis) ==
    IF analysis.raised # ""
    THEN Ends("buys", o, buys = EmptyDict, Unexpected(analysis.raised))
    ELSE IF req.holders_with_stats = <<>>
    THEN Goes("buys", o, buys = EmptyDict,
              [req EXCEPT !.phishy_count = analysis.phishy_count,
                          !.phishy_addresses = analysis.phishy_addresses,
                          !.pc = "holders", !.refetch = TRUE])
    ELSE Finish("buys", o, buys = EmptyDict,
                [req EXCEPT !.phishy_count = analysis.phishy_count,
                            !.phishy_addresses = analysis.phishy_addresses])

\* lines 230-231, got being what get_first_buys_pumpfun did with the answer o
Fetched(o, got) ==
    IF got.raised # "" THEN Fails("buys", o, got.raised)
    ELSE Analyzed(o, got.value, analyze_phishy_behavior_pumpfun(req.transfers, got.value))

\* lines 229-234
FetchBuys ==
    /\ req.pc = "buys"
    /\ \E o \in upstream.buys :
          IF o.kind = "transport" THEN Dies("buys", o)
          ELSE IF o.kind = "data"
          THEN Fetched(Gql("data", Restrict(o.rows, Receivers(req.transfers))),
                       get_first_buys_pumpfun(
                           Gql("data", Restrict(o.rows, Receivers(req.transfers)))))
          ELSE Fetched(o, get_first_buys_pumpfun(o))
    /\ Frame

\* GET /api/recent-phishy
get_recent_phishy ==
    /\ alive
    /\ req.pc = "idle"
    /\ LET recent == Reverse(phishy_tokens_cache)
       IN  response' = [status |-> 200,
                        body |-> [success |-> TRUE, tokens |-> recent, count |-> Len(recent)]]
    /\ UNCHANGED <<analyzeVars, memo, API_KEY, phishy_tokens_cache, alive, now, upstream, posts,
                   req, request, worker, lister, fetch_log, appended>>

check_token ==
    \/ Receive
    \/ FetchBondingCurve
    \/ CheckGraduated
    \/ FetchTopHolders
    \/ FetchPumpTokens
    \/ FetchTrades6h
    \/ FetchTransfers
    \/ FetchIpfs
    \/ FetchLiquidity
    \/ FetchHolderAnalysis
    \/ FetchBuys

Next == check_token \/ get_recent_phishy

Init == InitClassifier /\ InitApp(Varied)

Spec == Init /\ [][Next]_vars

InitCache == InitClassifier /\ InitApp(Steady)

SpecCache == InitCache /\ [][Next]_vars

\* the holder analysis over every list of top holders
InitHolders ==
    /\ InitClassifier
    /\ \E holders \in HolderLists, is_mayhem_mode \in BOOLEAN :
          InitApp(Crowded(holders, is_mayhem_mode))

SpecHolders == InitHolders /\ [][Next]_vars

InitAnalyze == InitClassifier /\ InitApp(Quiet)

SpecAnalyze == InitAnalyze /\ [][NextAnalyze]_vars

SpecRepeat == InitAnalyze /\ [][NextRepeat]_vars

\* One request, every upstream call of which returns or fails in the end
\* (requests.post has timeout=120): a handler that has a fetch to make makes it.

InitLive == InitClassifier /\ InitApp([Varied EXCEPT !.posts = OnePost])

\* the steps of a request in progress. The fetch at hand failing with
\* sys.exit, a case of each of the actions, comes first: it is enough to tell
\* that a step is there.
Progress ==
    /\ req.pc # "idle"
    /\ \/ /\ \E o \in {x \in (CASE req.pc = "bonding" -> upstream.bonding
                                [] req.pc = "graduated" -> upstream.graduated
                                [] req.pc \in {"holders", "holder_analysis"} -> upstream.holders
                                [] req.pc = "pump_tokens" -> upstream.pump_tokens
                                [] req.pc = "trades_6h" -> upstream.trades_6h
                                [] req.pc = "transfers" -> upstream.transfers
                                [] req.pc = "liquidity" -> upstream.liquidity
                                [] req.pc = "buys" -> upstream.buys
                                [] OTHER -> {}) : x.kind = "transport"} :
                Dies(CASE req.pc = "bonding" -> "bonding_curve"
                       [] req.pc \in {"holders", "holder_analysis"} -> "top_holders"
                       [] OTHER -> req.pc, o)
          /\ Frame
       \/ check_token

SpecLive == InitLive /\ [][Next]_vars /\ WF_vars(Progress)

(***************************************************************************)
(* Requests served at the same time. The handlers share no variable but    *)
(* phishy_tokens_cache: what check_token and get_recent_phishy work on is  *)
(* local to the call. The thread of req goes step by step as above; a      *)
(* second thread serves POST /api/check for another token, of which only   *)
(* the outcome and the append of lines 291-297 show; a third one serves    *)
(* GET /api/recent-phishy, list(phishy_tokens_cache) being one step and    *)
(* the rest of the handler another. deque.append and list(deque) are       *)
(* single operations of the interpreter.                                   *)
(***************************************************************************)
WarmPosts == 99
ThreadPosts == 102

\* the entry that request j of SpecCache appends
WarmEntry(j) ==
    [token_address |-> Token1, token_type |-> "pumpfun", phishy_count |-> 1, timestamp |-> j,
     totals |-> [total_transferred |-> 25, total_bought |-> 0, total_without_buy |-> 25]]

\* the cache after WarmPosts requests that found Token1 phishy
Warm == [j \in 1..WarmPosts |-> WarmEntry(j)]

\* the fetches of such a request
WarmCall(query, args, result) ==
    [query |-> query, args |-> args, kind |-> "data", result |-> result]
WarmLog ==
    <<WarmCall("bonding_curve", <<Token1>>, "value"),
      WarmCall("graduated", <<Token1>>, "empty"),
      WarmCall("top_holders", <<Token1>>, "value"),
      WarmCall("pump_tokens", <<Holder1>>, "value"),
      WarmCall("trades_6h", <<Holder1>>, "value"),
      WarmCall("transfers", <<Token1, Curve>>, "value"),
      WarmCall("ipfs", <<"uri">>, "value"),
      WarmCall("liquidity", <<Curve>>, "value"),
      WarmCall("top_holders", <<Token1>>, "value"),
      WarmCall("buys", <<Token1, <<"A">>>>, "empty")>>

\* Token1 with or without transfers to a receiver that never bought
Busy ==
    [Steady EXCEPT !.posts = ThreadPosts,
                   !.transfers = {Gql("data", <<>>), Gql("data", <<TransferA>>)}]

\* POST /api/check received by the second thread
Accept ==
    /\ alive
    /\ worker.pc = "idle"
    /\ posts < upstream.posts
    /\ worker' = [pc |-> "running", token_address |-> Token2]
    /\ posts' = posts + 1
    /\ now' = now + 1
    /\ UNCHANGED <<analyzeVars, memo, API_KEY, upstream, alive, phishy_tokens_cache, appended,
                   req, response, request, fetch_log, lister>>

\* the second thread comes to the end of check_token: with phishy_count > 0
\* it appends its entry (lines 291-297), otherwise it leaves the cache alone
Complete ==
    /\ alive
    /\ worker.pc = "running"
    /\ \E phishy_count \in 0..1 :
          IF phishy_count > 0
          THEN /\ phishy_tokens_cache' =
                      CacheAppend(phishy_tokens_cache,
                                  [WarmEntry(now) EXCEPT !.token_address = worker.token_address])
               /\ appended' =
                      Append(appended,
                             [WarmEntry(now) EXCEPT !.token_address = worker.token_address])
          ELSE UNCHANGED <<phishy_tokens_cache, appended>>
    /\ worker' = IdleWorker
    /\ UNCHANGED <<analyzeVars, memo, API_KEY, upstream, alive, now, posts, req, response,
                   request, fetch_log, lister>>

\* line 50: recent = list(phishy_tokens_cache)
Snapshot ==
    /\ alive
    /\ lister.pc = "idle"
    /\ lister' = [pc |-> "copied", recent |-> phishy_tokens_cache]
    /\ UNCHANGED <<analyzeVars, memo, API_KEY, upstream, alive, now, posts, req, response,
                   request, fetch_log, worker, phishy_tokens_cache, appended>>

\* lines 51-56: recent.reverse() and the response
Listing ==
    /\ alive
    /\ lister.pc = "copied"
    /\ response' = [status |-> 200,
                    body |-> [success |-> TRUE, tokens |-> Reverse(lister.recent),
                              count |-> Len(lister.recent)]]
    /\ lister' = IdleLister
    /\ UNCHANGED <<analyzeVars, memo, API_KEY, upstream, alive, now, posts, req,
                   request, fetch_log, worker, phishy_tokens_cache, appended>>

NextThreads == check_token \/ Accept \/ Complete \/ Snapshot \/ Listing

\* the server after WarmPosts requests served one after the other and a look
\* at the list
InitThreads ==
    /\ InitClassifier
    /\ upstream = Busy
    /\ API_KEY = TRUE
    /\ phishy_tokens_cache = Warm
    /\ appended = Warm
    /\ alive = TRUE
    /\ now = WarmPosts
    /\ posts = WarmPosts
    /\ req = IdleReq
    /\ response = [status |-> 200,
                   body |-> [success |-> TRUE, tokens |-> Reverse(Warm), count |-> Len(Warm)]]
    /\ request = Body(PyStr(Token1), PyAbsent, PyAbsent)
    /\ worker = IdleWorker
    /\ lister = IdleLister
    /\ fetch_log = WarmLog

SpecThreads == InitThreads /\ [][NextThreads]_vars

(***************************************************************************)
(* Properties of the classifier, under SpecAnalyze                         *)
(***************************************************************************)
Positions(list) == 1..Len(list)

\* the transfers the loop has been through
Processed == 1..(pos - 1)

IsNeverBoughtVerdict(v, a) ==
    /\ v.address = a
    /\ v.reason = PlainReason(NeverBought)
    /\ v.total_bought = PyNum(0)
    /\ v.first_buy_time = PyNone

Instant(v) == fromisoformat(ReplaceZ(v.s))

Parses(v) == v.k = "str" /\ Instant(v).ok

InstantLess(t, b) == DatetimeLess(Instant(t), Instant(b))

\* the loop is about to go through a transfer
AtTransfer == pc = "loop" /\ pos <= Len(transfers)

\* the step appends a verdict
Emits == Len(phishy_addresses') = Len(phishy_addresses) + 1

\* C2: for a transfer whose receiver has a buy record, both timestamps being
\* strings that parse (with or without offset), the iteration appends a verdict
\* if and only if the transfer instant is strictly before the buy instant
C2_StrictlyBefore ==
    [][(/\ AtTransfer
        /\ transfers[pos].receiver \in DOMAIN buy_data
        /\ Parses(Get(transfers[pos].first_transfer, PyNone))
        /\ Parses(Get(buy_data[transfers[pos].receiver].first_buy_time, PyNone)))
       => (Emits <=> InstantLess(transfers[pos].first_transfer,
                                 buy_data[transfers[pos].receiver].first_buy_time))]_vars

\* the decimal value of an amount, absent, None and non-numeric values being 0
Decimal(v) ==
    IF v.k = "num" THEN v.n
    ELSE IF v.k = "str" /\ ParseFloat(v.s).ok THEN ParseFloat(v.s).val
    ELSE 0

\* C3: in every verdict transferred_without_buy is the decimal value of
\* total_transferred minus the decimal value of total_bought
C3_Difference ==
    \A k \in Positions(phishy_addresses) :
       phishy_addresses[k].transferred_without_buy
          = Decimal(phishy_addresses[k].total_transferred)
            - Decimal(phishy_addresses[k].total_bought)

\* the four rules of the classifier, for a transfer record and the buy mapping
Present(v) == v.k \notin {"absent", "none"}

RawLess(t, b) ==
    \/ t.k = "str" /\ b.k = "str" /\ StrLess(t.s, b.s)
    \/ t.k = "num" /\ b.k = "num" /\ t.n < b.n

RuleNeverBought(tr, buys) == tr.receiver \notin DOMAIN buys

RuleNoTimestamp(tr, buys) ==
    /\ tr.receiver \in DOMAIN buys
    /\ ~Present(buys[tr.receiver].first_buy_time)

RuleBefore(tr, buys) ==
    /\ tr.receiver \in DOMAIN buys
    /\ Parses(tr.first_transfer)
    /\ Parses(buys[tr.receiver].first_buy_time)
    /\ InstantLess(tr.first_transfer, buys[tr.receiver].first_buy_time)

RuleFallback(tr, buys) ==
    /\ tr.receiver \in DOMAIN buys
    /\ Present(tr.first_transfer)
    /\ Present(buys[tr.receiver].first_buy_time)
    /\ ~(Parses(tr.first_transfer) /\ Parses(buys[tr.receiver].first_buy_time))
    /\ RawLess(tr.first_transfer, buys[tr.receiver].first_buy_time)

RulesFired(tr, buys) ==
    {r \in {"never", "notime", "before", "fallback"} :
        \/ r = "never" /\ RuleNeverBought(tr, buys)
        \/ r = "notime" /\ RuleNoTimestamp(tr, buys)
        \/ r = "before" /\ RuleBefore(tr, buys)
        \/ r = "fallback" /\ RuleFallback(tr, buys)}

DistinctReceivers(list) ==
    \A j, k \in Positions(list) : list[j].receiver = list[k].receiver => j = k

\* C4: on transfers with pairwise distinct receivers the returned list holds a
\* verdict for an address if and only if exactly one of the four rules fires
\* for its transfer record, and no address has more than one verdict
C4_RuleSet ==
    (pc = "returned" /\ DistinctReceivers(transfers))
    => /\ \A j \in Positions(transfers) :
             (\E k \in Positions(ret.phishy_addresses) :
                 ret.phishy_addresses[k].address = transfers[j].receiver)
             <=> Cardinality(RulesFired(transfers[j], buy_data)) = 1
       /\ \A j, k \in Positions(ret.phishy_addresses) :
             ret.phishy_addresses[j].address = ret.phishy_addresses[k].address => j = k

\* verdict v was made from transfer record tr
MadeFrom(v, tr) ==
    /\ v.address = tr.receiver
    /\ v.first_transfer_time = Get(tr.first_transfer, PyNone)
    /\ v.total_transferred = Get(tr.total_transferred_amount, PyNum(0))

RECURSIVE IsSubsequence(_, _)
\* the verdicts vs come from transfer records of ts, in the order of ts
IsSubsequence(vs, ts) ==
    IF vs = <<>> THEN TRUE
    ELSE IF ts = <<>> THEN FALSE
    ELSE IF MadeFrom(Head(vs), Head(ts)) THEN IsSubsequence(Tail(vs), Tail(ts))
    ELSE IsSubsequence(vs, Tail(ts))

IsPrefix(a, b) == Len(a) <= Len(b) /\ SubSeq(b, 1, Len(a)) = a

\* C6: the verdicts are a subsequence of the transfers gone through, the
\* returned list is a subsequence of the input, and an iteration only appends:
\* the verdicts so far are never reordered or removed
C6_OrderPreserved ==
    /\ [](/\ IsSubsequence(phishy_addresses, SubSeq(transfers, 1, pos - 1))
          /\ (pc = "returned" => IsSubsequence(ret.phishy_addresses, transfers)))
    /\ [][pc = "loop" => IsPrefix(phishy_addresses, phishy_addresses')]_vars

\* a call returned two different verdicts for two transfers
C6_Witness ==
    /\ pc = "returned"
    /\ Len(transfers) = 2
    /\ ret.phishy_count = 2
    /\ ret.phishy_addresses[1] # ret.phishy_addresses[2]
    /\ MadeFrom(ret.phishy_addresses[1], transfers[1])

C8_NeverRaises == pc # "raised"

(***************************************************************************)
(* Properties of the server, under Spec and SpecCache                      *)
(***************************************************************************)
\* the last response is a success response of POST /api/check
CheckSucceeded == response.status = 200 /\ "data" \in DOMAIN response.body

\* C5: the phishy_count that analyze_phishy_behavior_pumpfun hands to the
\* handler is the length of the verdict list it hands over with it, and in
\* every success response of POST /api/check phishy is true exactly when
\* data.phishy_count > 0, data.phishy_count being the length of
\* data.phishy_addresses.
C5_PhishyFlag ==
    /\ req.phishy_count = Len(req.phishy_addresses)
    /\ CheckSucceeded =>
          /\ response.body.phishy <=> response.body.data.phishy_count > 0
          /\ response.body.data.phishy_count = Len(response.body.data.phishy_addresses)

\* a success response that reports two phishy addresses
C5_Witness ==
    /\ CheckSucceeded
    /\ response.body.phishy
    /\ response.body.data.phishy_count = 2
    /\ Len(response.body.data.phishy_addresses) = 2

\* C9: when the upstream call of get_first_transfers_pumpfun or of
\* get_first_buys_pumpfun fails, the fetcher does not return [] or {}: no
\* failed call of the two is logged with an empty result, and no "No transfers
\* found" response follows a failed transfer fetch.
C9_FailureSignalled ==
    \A j \in 1..Len(fetch_log) :
        (fetch_log[j].query \in {"transfers", "buys"} /\ fetch_log[j].kind \in Failed)
            => fetch_log[j].result # "empty"

\* the last response is the listing of GET /api/recent-phishy
Listed == response.status = 200 /\ "tokens" \in DOMAIN response.body

\* C10: after n appends to phishy_tokens_cache the cache holds the min(n, 100)
\* entries appended last, oldest first (so the entries evicted are the oldest
\* n - 100), and the response of GET /api/recent-phishy has success = true,
\* count = min(n, 100) = the length of tokens, and tokens are those entries,
\* the most recent first.
C10_RecentPhishy ==
    LET n == Len(appended)
        k == IF n < 100 THEN n ELSE 100
    IN  /\ Len(phishy_tokens_cache) = k
        /\ \A j \in 1..k : phishy_tokens_cache[j] = appended[n - k + j]
        /\ Listed =>
              /\ response.body.success
              /\ response.body.count = k
              /\ Len(response.body.tokens) = k
              /\ \A j \in 1..k : response.body.tokens[j] = appended[n - j + 1]

\* a listing after more than 100 appends
C10_Witness ==
    /\ Listed
    /\ Len(appended) > 100
    /\ response.body.count = 100
    /\ response.body.tokens[1] = appended[Len(appended)]
    /\ response.body.tokens[1] # appended[1]

\* the last response is the answer to a POST /api/check that found phishy addresses
FoundPhishy == CheckSucceeded /\ response.body.data.phishy_count > 0

\* C11: every entry of phishy_tokens_cache has phishy_count > 0, and a step
\* changes the cache only by appending one entry (dropping the oldest when
\* the cache is full) while it sends the success response of a POST /api/check
\* whose classification gave phishy_count > 0, the entry being that token
\* with that count: steps that send a 400 or 500 response, a "No transfers
\* found" response or a response with phishy_count = 0, and GET requests,
\* leave the cache as it is.
C11_OnlyPhishyCached ==
    /\ [](\A j \in 1..Len(phishy_tokens_cache) : phishy_tokens_cache[j].phishy_count > 0)
    /\ [][phishy_tokens_cache' # phishy_tokens_cache =>
             /\ FoundPhishy'
             /\ response' # response
             /\ Len(phishy_tokens_cache') >= 1
             /\ \/ phishy_tokens_cache' =
                      Append(phishy_tokens_cache, phishy_tokens_cache'[Len(phishy_tokens_cache')])
                \/ /\ Len(phishy_tokens_cache) = 100
                   /\ phishy_tokens_cache' =
                          Append(Tail(phishy_tokens_cache),
                                 phishy_tokens_cache'[Len(phishy_tokens_cache')])
             /\ phishy_tokens_cache'[Len(phishy_tokens_cache')].phishy_count =
                    response'.body.data.phishy_count
             /\ phishy_tokens_cache'[Len(phishy_tokens_cache')].token_address =
                    response'.body.token_address]_vars

\* a second request was answered with phishy_count = 0 and the entry of the
\* first is still the cache
C11_Witness ==
    /\ posts = 2
    /\ Len(phishy_tokens_cache) = 1
    /\ phishy_tokens_cache = appended
    /\ CheckSucceeded
    /\ response.body.data.phishy_count = 0

\* the response to hand: the answer to the last POST /api/check
Answered == posts > 0 /\ req.pc = "idle" /\ alive /\ ~Listed

\* the body is a JSON object whose token_address is a string with something in
\* it besides white space (and whose other fields, where given, are strings)
HasAddress(body) ==
    /\ body.json
    /\ Get(body.token_address, PyStr(<<>>)).k = "str"
    /\ Get(body.bonding_curve, PyStr(<<>>)).k = "str"
    /\ Get(body.token_type, PyStr(<<>>)).k = "str"
    /\ Strip(Get(body.token_address, PyStr(<<>>)).s) # <<>>

ConfigurationError ==
    [status |-> 500,
     body |-> [success |-> FALSE, error |-> "Server configuration error: API key not found"]]

\* C12 as stated: whenever BITQUERY_API_KEY is absent, every POST /api/check
\* is answered with the HTTP 500 configuration error and no upstream fetch is
\* issued during the request.
C12_KeyAbsent ==
    ~API_KEY /\ posts > 0 /\ ~Listed => response = ConfigurationError /\ fetch_log = <<>>

\* C12, amended: whenever BITQUERY_API_KEY is absent, no upstream fetch is
\* issued, and a POST /api/check whose body carries a non-empty token_address
\* is answered with the HTTP 500 configuration error; the test for an address
\* comes before the test for the credential, so a request without one gets
\* the answer it gets when the credential is there (400, or 500 with the
\* message of the exception when the body is no JSON object of strings).
C12_KeyAbsentAmended ==
    ~API_KEY =>
        /\ fetch_log = <<>>
        /\ req.pc = "idle"
        /\ posts > 0 /\ ~Listed =>
              IF HasAddress(request)
              THEN response = ConfigurationError
              ELSE /\ response.status \in {400, 500}
                   /\ response.body.success = FALSE
                   /\ response.body.error \in {"Token address is required", "AttributeError"}
C12_Witness ==
    ~API_KEY /\ posts = MaxPosts /\ HasAddress(request) /\ ~Listed /\ response = ConfigurationError

\* token_address is missing or empty: no JSON object, no such field, null, or
\* a string of white space
MissingAddress(body) ==
    \/ ~body.json
    \/ body.token_address.k \in {"absent", "none"}
    \/ body.token_address.k = "str" /\ Strip(body.token_address.s) = <<>>

Asked(query) == \E j \in 1..Len(fetch_log) : fetch_log[j].query = query
Found(query, result) ==
    \E j \in 1..Len(fetch_log) : fetch_log[j].query = query /\ fetch_log[j].result = result

\* C13: POST /api/check answers HTTP 400 with success = false for every
\* validation failure (token_address missing or empty, a body without the
\* field or without a JSON object included; an address of invalid format; a
\* bonding curve that cannot be found; a graduated token); HTTP 500 is
\* returned only for a missing credential or an unexpected failure; and in
\* none of these cases is the transfer fetch, the buy fetch or the classifier
\* invoked.
C13_ValidationFailures ==
    Answered /\ response # NoResponse =>
        /\ MissingAddress(request) => response.status = 400 /\ response.body.success = FALSE
        /\ API_KEY /\ HasAddress(request) /\ fetch_log = <<>> =>
              response.status = 400 /\ response.body.success = FALSE
        /\ Found("bonding_curve", "empty") =>
              response.status = 400 /\ response.body.success = FALSE
        /\ Found("graduated", "value") =>
              response.status = 400 /\ response.body.success = FALSE
        /\ response.status = 400 \/ response = ConfigurationError =>
              ~Asked("transfers") /\ ~Asked("buys")
        /\ response.status = 500 => ~response.body.success

\* C14: every success response (success = true) of POST /api/check carries
\* the fields phishy, token_address, token_type and data.total_addresses,
\* data.phishy_count, data.normal_count, data.phishy_addresses, with
\* normal_count = total_addresses - phishy_count >= 0, whether transfers were
\* found or not.
C14_SuccessEnvelope ==
    CheckSucceeded =>
        /\ response.body.success
        /\ {"phishy", "token_address", "token_type"} \subseteq DOMAIN response.body
        /\ {"total_addresses", "phishy_count", "normal_count", "phishy_addresses"}
               \subseteq DOMAIN response.body.data
        /\ response.body.data.normal_count
               = response.body.data.total_addresses - response.body.data.phishy_count
        /\ response.body.data.normal_count >= 0

\* the null-safe-to-zero conversion: absent, null and non-numeric count as 0
ToZero(v) == IF FloatOrZeroOf(v).err = "" THEN FloatOrZeroOf(v).val ELSE 0

RECURSIVE SumToZero(_, _)
SumToZero(verdicts, field) ==
    IF verdicts = <<>> THEN 0
    ELSE ToZero(Head(verdicts)[field]) + SumToZero(Tail(verdicts), field)

RECURSIVE SumWithoutBuy(_)
SumWithoutBuy(verdicts) ==
    IF verdicts = <<>> THEN 0
    ELSE Head(verdicts).transferred_without_buy + SumWithoutBuy(Tail(verdicts))

\* the handler has the verdict list in hand (the classifier returned it) and
\* this step brings the request to its end, the last fetch having returned
TotalsStep ==
    /\ req.refetch
    /\ req'.pc = "idle"
    /\ fetch_log'[Len(fetch_log')].result \in {"empty", "value"}

\* C15: for every verdict list that analyze_phishy_behavior_pumpfun can
\* produce, the totals computation in check_token completes without error and
\* each of total_transferred, total_bought and total_without_buy is the sum
\* over all verdicts of the corresponding field, absent, null and non-numeric
\* values counting as 0; totals are present exactly when phishy_count > 0.
C15_Totals ==
    /\ [](CheckSucceeded =>
             ("totals" \in DOMAIN response.body.data <=> response.body.data.phishy_count > 0))
    /\ [][TotalsStep =>
             /\ CheckSucceeded'
             /\ response'.body.data.phishy_addresses = req.phishy_addresses
             /\ req.phishy_count > 0 =>
                   response'.body.data.totals =
                       [total_transferred |-> SumToZero(req.phishy_addresses, "total_transferred"),
                        total_bought |-> SumToZero(req.phishy_addresses, "total_bought"),
                        total_without_buy |-> SumWithoutBuy(req.phishy_addresses)]]_vars

\* C16: each kind of upstream transport/schema error met by
\* make_graphql_request (network failure, non-2xx response, malformed or
\* error-bearing GraphQL payload) terminates the whole process: control never
\* returns to the calling fetcher, and the enclosing POST /api/check request
\* produces no HTTP response for it.
C16_ErrorsTerminate ==
    \A j \in 1..Len(fetch_log) :
        fetch_log[j].kind \in Failed =>
            /\ fetch_log[j].result = "exit"
            /\ j = Len(fetch_log)
            /\ ~alive
            /\ response = NoResponse

\* the receiver of the transfer has a buy record whose first_buy_time is
\* absent or null
NoBuyTime(transfer) ==
    /\ transfer.receiver \in DOMAIN buy_data
    /\ buy_data[transfer.receiver].first_buy_time.k \in {"absent", "none"}

IsNoTimestampVerdict(v, transfer) ==
    /\ v.address = transfer.receiver
    /\ v.reason = PlainReason(NoTimestamp)
    /\ v.first_buy_time = PyNone
    /\ v.first_transfer_time = Get(transfer.first_transfer, PyNone)
    /\ v.total_bought = Get(buy_data[transfer.receiver].total_amount, PyNum(0))

EmitsStringComparison ==
    /\ Emits
    /\ phishy_addresses'[Len(phishy_addresses')].reason = PlainReason(StringComparison)

\* the loop is about to go through a transfer whose receiver has a buy record,
\* both timestamps being strings, and the iteration does not raise
AtTimestamps ==
    /\ AtTransfer
    /\ transfers[pos].receiver \in DOMAIN buy_data
    /\ transfers[pos].first_transfer.k = "str"
    /\ buy_data[transfers[pos].receiver].first_buy_time.k = "str"
    /\ pc' # "raised"

BothParse ==
    /\ Parses(transfers[pos].first_transfer)
    /\ Parses(buy_data[transfers[pos].receiver].first_buy_time)

\* C18: for a transfer whose receiver has a buy record, both timestamps being
\* present, when at least one of them fails to parse the iteration appends a
\* verdict with reason "Transfer before buy (string comparison)" if and only
\* if the raw transfer value sorts strictly before the raw buy value, and when
\* both parse no verdict has that reason
C18_LexicalFallback ==
    [][AtTimestamps =>
          IF BothParse
          THEN ~EmitsStringComparison
          ELSE (EmitsStringComparison
                    <=> StrLess(transfers[pos].first_transfer.s,
                                buy_data[transfers[pos].receiver].first_buy_time.s))]_vars

Calls == 1..Len(fetch_log)

HolderQueries == {"top_holders", "pump_tokens", "trades_6h"}

\* the step issues one fetch
Fetches(query) ==
    /\ Len(fetch_log') = Len(fetch_log) + 1
    /\ fetch_log'[Len(fetch_log')].query = query

\* C19 as stated: within one POST /api/check request the fetches are issued in
\* this order: the transfer fetch first, then the buy fetch, and only after
\* that the holder-statistics fetches (top holders, per-holder token count and
\* 6h trade count); the buy fetch is issued only when the transfer fetch
\* returned at least one record.
C19_FetchOrder ==
    \A j \in Calls :
        /\ fetch_log[j].query = "buys" =>
              \E i \in 1..(j - 1) :
                  fetch_log[i].query = "transfers" /\ fetch_log[i].result = "value"
        /\ fetch_log[j].query \in HolderQueries =>
              \E i \in 1..(j - 1) :
                  /\ fetch_log[i].query = "transfers"
                  /\ fetch_log[i].result = "value" =>
                        \E k \in (i + 1)..(j - 1) : fetch_log[k].query = "buys"

\* C19, amended: within one POST /api/check request the fetches are issued
\* strictly one at a time; the holder-statistics fetches (top holders, then
\* token count and 6h trade count of each holder) come before the transfer
\* fetch; the buy fetch comes after the transfer fetch and the top-holders
\* fetch of the holder analysis, only when the transfer fetch returned at
\* least one record and for exactly the receivers it returned, in its order;
\* holder statistics are fetched after the buy fetch only when the first
\* top-holders fetch returned no holder.
C19_FetchOrderAmended ==
    /\ [][\/ fetch_log' = fetch_log
          \/ fetch_log' = <<>>
          \/ /\ Len(fetch_log') = Len(fetch_log) + 1
             /\ SubSeq(fetch_log', 1, Len(fetch_log)) = fetch_log]_vars
    /\ [][Fetches("buys") =>
             /\ req.transfers # <<>>
             /\ fetch_log'[Len(fetch_log')].args =
                    <<req.token_address,
                      [j \in 1..Len(req.transfers) |-> req.transfers[j].receiver]>>]_vars
    /\ [](\A j \in Calls :
             /\ fetch_log[j].query = "transfers" =>
                   /\ \A i \in 1..(j - 1) :
                         fetch_log[i].query \in {"bonding_curve", "graduated"} \cup HolderQueries
                   /\ \E i \in 1..(j - 1) : fetch_log[i].query = "top_holders"
             /\ fetch_log[j].query = "buys" =>
                   /\ \E i \in 1..(j - 1) :
                         /\ fetch_log[i].query = "transfers" /\ fetch_log[i].result = "value"
                         /\ \E k \in (i + 1)..(j - 1) : fetch_log[k].query = "top_holders"
                   /\ \A i \in Calls \ {j} : fetch_log[i].query # "buys"
                   /\ \A i \in (j + 1)..Len(fetch_log) :
                         /\ fetch_log[i].query \in HolderQueries
                         /\ \A k \in 1..(j - 1) :
                               fetch_log[k].query = "transfers" =>
                                   \A h \in 1..(k - 1) :
                                       fetch_log[h].query = "top_holders"
                                           => fetch_log[h].result = "empty")

\* a request answered with success after the statistics of the holders, the
\* transfer fetch and the buy fetch for its two receivers
C19_Witness ==
    /\ CheckSucceeded
    /\ \E j \in Calls :
          /\ fetch_log[j].query = "buys"
          /\ fetch_log[j].args[2] = <<"A", "B">>
          /\ \E i \in 1..(j - 1) : fetch_log[i].query = "trades_6h"

\* C20: no upstream fetch is re-issued: within one POST /api/check request
\* each upstream query for a given argument is sent at most once.
C20_NoRefetch ==
    \A i, j \in Calls :
        (i < j /\ fetch_log[i].query = fetch_log[j].query)
            => fetch_log[i].args # fetch_log[j].args

(***************************************************************************)
(* Properties of the server with requests served at the same time, under   *)
(* SpecThreads                                                             *)
(***************************************************************************)
\* the thread of req ends its request with a success response, phishy
MainFoundPhishy ==
    /\ req.pc # "idle" /\ req'.pc = "idle"
    /\ CheckSucceeded' /\ response'.body.data.phishy_count > 0

\* the second thread ends its request
WorkerEnds == worker.pc = "running" /\ worker'.pc = "idle"

\* the step appends exactly the entry e to the cache, evicting the oldest
\* entry of a full cache
AppendsOne ==
    /\ Len(appended') = Len(appended) + 1
    /\ SubSeq(appended', 1, Len(appended)) = appended
    /\ Len(phishy_tokens_cache') = IF Len(phishy_tokens_cache) < 100
                                   THEN Len(phishy_tokens_cache) + 1 ELSE 100
    /\ \A j \in 1..Len(phishy_tokens_cache') :
          phishy_tokens_cache'[j] =
              appended'[Len(appended') - Len(phishy_tokens_cache') + j]

\* tokens lists, most recent first, the cache as it was after n appends
ListsAt(tokens, n) ==
    /\ Len(tokens) = IF n < 100 THEN n ELSE 100
    /\ \A j \in 1..Len(tokens) : tokens[j] = appended[n - j + 1]

\* C21: under every interleaving of POST /api/check and GET
\* /api/recent-phishy requests served at the same time, the handlers share
\* nothing but phishy_tokens_cache (a step of one thread leaves the locals of
\* the others alone); the cache changes only by the append of one entry, at
\* the end of a request that found the token phishy, and every such end
\* appends; its length never exceeds 100; and a GET request leaves the cache
\* alone and returns, most recent first, the cache as it was at one instant.
C21_SharedCache ==
    /\ [](Len(phishy_tokens_cache) <= 100)
    /\ [](Listed => \E n \in 0..Len(appended) : ListsAt(response.body.tokens, n))
    /\ [][/\ req' # req \/ fetch_log' # fetch_log => worker' = worker /\ lister' = lister
          /\ worker' # worker => req' = req /\ fetch_log' = fetch_log /\ lister' = lister
          /\ lister' # lister =>
                /\ req' = req /\ fetch_log' = fetch_log /\ worker' = worker
                /\ phishy_tokens_cache' = phishy_tokens_cache]_vars
    /\ [][phishy_tokens_cache' # phishy_tokens_cache \/ appended' # appended =>
             /\ AppendsOne
             /\ IF WorkerEnds
                THEN appended'[Len(appended')].token_address = worker.token_address
                ELSE /\ MainFoundPhishy
                     /\ appended'[Len(appended')].token_address = response'.body.token_address]_vars
    /\ [][MainFoundPhishy => AppendsOne]_vars

\* both threads have appended to the full cache, and the list that a GET
\* request returned is no longer the cache: an append came between its copy
\* and its response
C21_Witness ==
    /\ Listed
    /\ Len(phishy_tokens_cache) = 100
    /\ Len(appended) > 100
    /\ \E j \in 1..Len(appended) : appended[j].token_address = Token2
    /\ appended[Len(appended)].token_address = Token1
    /\ appended[Len(appended)].timestamp > WarmPosts
    /\ response.body.count = 100
    /\ response.body.tokens[1] # phishy_tokens_cache[100]

\* the most holders one top-holders fetch returns
MaxHolders ==
    CHOOSE n \in 0..10 :
        /\ \A o \in upstream.holders : Len(o.rows) <= n
        /\ \E o \in upstream.holders : Len(o.rows) = n

PerHolder == {j \in Calls : fetch_log[j].query \in {"pump_tokens", "trades_6h"}}

\* the step ends the request that the thread of req is serving
EndsRequest == req.pc # "idle" /\ req'.pc = "idle"

Responds == response'.status \in {200, 400, 500}
Exits == fetch_log'[Len(fetch_log')].result = "exit"

\* C22: every upstream call returning or failing in the end, every POST
\* /api/check request comes to exactly one outcome, one HTTP response (200,
\* 400 or 500) or the exit at a failed fetch, and sends nothing before; the
\* fetches it issues are at most 9 and two for each top holder returned.
C22_Terminates ==
    /\ (req.pc # "idle") ~> (req.pc = "idle")
    /\ [](req.pc # "idle" => response = NoResponse)
    /\ [](/\ Cardinality(Calls \ PerHolder) <= 9
          /\ Cardinality(PerHolder) <= 2 * MaxHolders)
    /\ [][EndsRequest => (Responds /\ ~Exits) \/ (Exits /\ response' = NoResponse)]_vars
    /\ [][posts' # posts /\ req'.pc = "idle" => response'.status \in {400, 500}]_vars

\* a request that went through the statistics of two holders and both
\* fetches of transfers and buys has got its response
C22_Witness ==
    /\ req.pc = "idle"
    /\ CheckSucceeded
    /\ Cardinality(PerHolder) = 2 * MaxHolders
    /\ Asked("buys")

\* the handler has just gone through lines 69-92 for a request with an
\* address, the credential being there
Validated ==
    /\ API_KEY /\ posts > 0 /\ HasAddress(request)
    /\ fetch_log = <<>>
    /\ ~Listed
    /\ req.pc # "idle" \/ response # NoResponse

\* the address is not refused: the handler goes on to its first fetch
Accepted == req.pc # "idle"

\* the address without the white space around it
Trimmed == Strip(request.token_address.s)

\* C23: POST /api/check accepts a token address if and only if, trimmed, it
\* does not start with "0x" and has 32 to 44 characters; every other
\* non-empty address is refused as invalid input (400); and main accepts
\* exactly the addresses that the handler accepts.
C23_SameAddresses ==
    Validated =>
        /\ Accepted <=>
              /\ ~(Len(Trimmed) >= 2 /\ Trimmed[1] = "0" /\ Trimmed[2] = "x")
              /\ Len(Trimmed) >= 32 /\ Len(Trimmed) <= 44
        /\ ~Accepted =>
              /\ response.status = 400
              /\ response.body.error = "Invalid Pump.fun token address"
        /\ Accepted <=> main(request.token_address.s, <<>>) = "accepted"
        /\ Accepted <=> main(<<>>, request.token_address.s) = "accepted"

\* analyze_holder_distribution has just returned to the handler, with holders
HoldersAnalyzed ==
    /\ req.pc = "buys"
    /\ fetch_log # <<>>
    /\ fetch_log[Len(fetch_log)].query = "top_holders"
    /\ fetch_log[Len(fetch_log)].result = "value"

\* the top holders the upstream has for the token
TopHolders == RowsOf(CHOOSE o \in upstream.holders : TRUE)

\* the holders that remain without the bonding curve and the Mayhem AI agent
Remaining ==
    SelectSeq(TopHolders,
              LAMBDA holder : /\ holder.address # req.bonding_curve
                              /\ holder.address # MAYHEM_AI_AGENT_ADDRESS)

\* holdings and the supply are in millions of tokens
SupplyInMillions == IF req.bonding_curve_data.is_mayhem_mode THEN 2 * 1000 ELSE 1000
AtLeastPercent(holding, percent) == holding * 100 >= percent * SupplyInMillions
IsTheCreator(holder) == holder.address = req.bonding_curve_data.creator_address
Offenders == {j \in 1..Len(Remaining) : /\ ~IsTheCreator(Remaining[j])
                                        /\ AtLeastPercent(Remaining[j].holding, 5)}

\* C24: over the top holders that remain after removing the bonding curve
\* and the Mayhem AI agent, with a supply of 2,000,000,000 in Mayhem mode
\* and 1,000,000,000 otherwise, analyze_holder_distribution returns
\* creator_check_passed iff the creator is not among them or holds less than
\* 5%, other_holders_check_passed iff no other holder holds 5% or more,
\* top10_check_passed iff they hold less than 70% together, and failed_holder
\* is the first other holder with 5% or more, null iff there is none.
C24_HolderChecks ==
    HoldersAnalyzed =>
        /\ req.holder_analysis.creator_check_passed <=>
               \A j \in 1..Len(Remaining) :
                   IsTheCreator(Remaining[j]) => ~AtLeastPercent(Remaining[j].holding, 5)
        /\ req.holder_analysis.other_holders_check_passed <=> Offenders = {}
        /\ req.holder_analysis.top10_check_passed <=>
               ~AtLeastPercent(SumHoldings(Remaining), 70)
        /\ req.holder_analysis.failed_holder = <<>> <=>
               req.holder_analysis.other_holders_check_passed
        /\ \A j \in Offenders :
               (\A k \in Offenders : j <= k) =>
                   req.holder_analysis.failed_holder = Remaining[j].address

\* the creator holds 5% and the holder after them 10% of a supply of one billion
C24_Witness ==
    /\ HoldersAnalyzed
    /\ TopHolders = <<Holder(Dev, 50), Holder(Holder1, 100)>>
    /\ ~req.bonding_curve_data.is_mayhem_mode
    /\ ~req.holder_analysis.creator_check_passed
    /\ req.holder_analysis.failed_holder = Holder1
    /\ req.holder_analysis.top10_check_passed

\* C25: analyze_phishy_behavior_pumpfun leaves its two arguments unchanged:
\* at every step of a call the transfer sequence and the buy mapping, with
\* every record in them, are what they were, and the records in the list of
\* verdicts are records of their own, none of them a record of the arguments.
C25_ArgumentsUnchanged ==
    [][pc = "loop" =>
          /\ transfers' = transfers
          /\ buy_data' = buy_data
          /\ \A j \in 1..Len(phishy_addresses') :
                /\ \A k \in 1..Len(transfers) : phishy_addresses'[j] # transfers[k]
                /\ \A a \in DOMAIN buy_data : phishy_addresses'[j] # buy_data[a]]_vars

\* a call with two transfers and a buy record has returned a verdict
C25_Witness ==
    /\ pc = "returned"
    /\ Len(transfers) = 2
    /\ DOMAIN buy_data # {}
    /\ ret.phishy_count >= 1
    /\ \E j \in 1..Len(transfers) : transfers[j].receiver \in DOMAIN buy_data

\* this step is the return of get_first_buys_pumpfun with {} for the
\* receivers of a transfer list that is not empty
NoBuyAtAll ==
    /\ req.pc = "buys"
    /\ req.transfers # <<>>
    /\ fetch_log' = Append(fetch_log, fetch_log'[Len(fetch_log')])
    /\ fetch_log'[Len(fetch_log')].query = "buys"
    /\ fetch_log'[Len(fetch_log')].result = "empty"

\* the response that reports every receiver of n transfers as phishy
AllFlagged(r, n) ==
    /\ r.status = 200
    /\ "data" \in DOMAIN r.body
    /\ r.body.phishy
    /\ r.body.data.phishy_count = n
    /\ r.body.data.normal_count = 0
    /\ \A j \in 1..Len(r.body.data.phishy_addresses) :
          r.body.data.phishy_addresses[j].reason.text = "Never bought the token"

\* C26: whenever get_first_buys_pumpfun returns {} for a non-empty address
\* list, every receiver is flagged with "Never bought the token" and
\* phishy_count is the number of transfer records, so that the response has
\* phishy = true and normal_count = 0 and the token is appended to the cache.
C26_NoBuysAllPhishy ==
    [][NoBuyAtAll =>
          IF req'.pc = "holders"
          THEN /\ req'.phishy_count = Len(req.transfers)
               /\ \A j \in 1..Len(req'.phishy_addresses) :
                     req'.phishy_addresses[j].reason.text = "Never bought the token"
          ELSE /\ AllFlagged(response', Len(req.transfers))
               /\ Len(appended') = Len(appended) + 1
               /\ appended'[Len(appended')].token_address = req.token_address
               /\ phishy_tokens_cache' = CacheAppend(phishy_tokens_cache,
                                                     appended'[Len(appended')])]_vars

\* the values of token_type compared: not given, empty, and strings with
\* upper case and white space
TokenTypes ==
    {PyAbsent, PyStr(<<>>), PyStr(<<"x">>), PyStr(<<" ", "F", "o", "u", "r", "m", "e", "m", "e">>),
     PyStr(<<"p", "u", "m", "p", "f", "u", "n">>)}

\* this step is the handler reading the body of a request
Reads == posts' = posts + 1

NoHolders ==
    /\ fetch_log # <<>>
    /\ fetch_log[Len(fetch_log)].query = "top_holders"
    /\ fetch_log[Len(fetch_log)].result = "empty"
    /\ \E j \in Calls : fetch_log[j].query = "transfers"
    /\ \A j \in Calls : fetch_log[j].query # "buys"
    /\ req.pc = "buys" \/ (req.pc = "idle" /\ CheckSucceeded)

\* the analysis handed on: in the locals, or in the response when there is
\* no transfer to look at
HolderAnalysis ==
    IF req.pc = "buys" THEN req.holder_analysis ELSE response.body.data.holder_analysis

\* C28: when the fetch of the top holders inside analyze_holder_distribution
\* yields no holders (an upstream answer carrying errors included), the
\* function reports the three checks as passed, failed_holder null, the two
\* percentages 0 and the error "Could not fetch holders": never a failed check.
C28_NoHoldersNoFailure ==
    NoHolders =>
        /\ HolderAnalysis.creator_check_passed
        /\ HolderAnalysis.other_holders_check_passed
        /\ HolderAnalysis.top10_check_passed
        /\ HolderAnalysis.failed_holder = <<>>
        /\ HolderAnalysis.creator_percent = 0
        /\ HolderAnalysis.top10_percent = 0
        /\ "error" \in DOMAIN HolderAnalysis
        /\ HolderAnalysis.error = "Could not fetch holders"

\* the upstream answered the holder query of the analysis with errors
C28_Witness ==
    /\ NoHolders
    /\ req.pc = "buys"
    /\ fetch_log[Len(fetch_log)].kind = "errors"
    /\ \E j \in 1..(Len(fetch_log) - 1) :
          fetch_log[j].query = "top_holders" /\ fetch_log[j].result = "value"

====
